---- MODULE Spec2Model ----
(***************************************************************************)
(* A model of the CodeReview-C rule engine (core/rule_engine.py), the rule *)
(* base class (rules/base_rule.py), the parser's line bookkeeping          *)
(* (core/parser.py) and the main window's threads (ui/main_window.py).     *)
(*                                                                         *)
(* Python objects are modelled as a heap: objs maps an instance to the     *)
(* mutable fields of the rule object, and every list of rules (the         *)
(* registry's self.rules, the enabled_rules list of a running batch) is a  *)
(* sequence of instances, as the Python lists are lists of references.     *)
(*                                                                         *)
(* The values of the Severity enum are Chinese strings in the source; the  *)
(* module writes them in pinyin: "yanzhong" (CRITICAL), "jinggao"          *)
(* (WARNING), "jianyi" (SUGGESTION).                                       *)
(***************************************************************************)
EXTENDS Integers, Sequences, FiniteSets, TLC

VARIABLES
    objs,            \* heap: instance -> fields of the rule object
    rules,           \* RuleEngine.rules: sequence of instances
    rule_templates,  \* RuleEngine.rule_templates: template key -> template
    last,            \* history: the last engine call, its argument and the exception it raised
    calls,           \* history: the number of engine calls made so far
    exported,        \* the file export_config wrote, and the registry it was written from
    fresh,           \* a second, freshly constructed RuleEngine that imports that file
    result,          \* what the last check_files call returned, and which checks it invoked
    gui,             \* MainWindow: its widgets, check threads and queued root.after callbacks
    source_file,     \* one source file: read, parsed by CodeParser, checked by one rule
    probe            \* the argument of one call of a side-effect-free method, then its return value

engine_vars == <<objs, rules, rule_templates>>
export_vars == <<exported, fresh>>
vars == <<objs, rules, rule_templates, last, calls, exported, fresh, result, gui,
          source_file, probe>>

\* The longest sequence of engine calls a behaviour makes.
MaxCalls == 3

-----------------------------------------------------------------------------
(* Generic helpers *)

InSeq(x, s) == \E i \in DOMAIN s : s[i] = x

RECURSIVE Concat(_)
Concat(ss) == IF ss = <<>> THEN <<>> ELSE Head(ss) \o Concat(Tail(ss))

-----------------------------------------------------------------------------
(* Severity (rules/base_rule.py) *)

SeverityMembers == {"CRITICAL", "WARNING", "SUGGESTION"}

SeverityValue(m) ==
    CASE m = "CRITICAL"   -> "yanzhong"
      [] m = "WARNING"    -> "jinggao"
      [] m = "SUGGESTION" -> "jianyi"

ValueError == "ValueError"
TypeError == "TypeError"
KeyError == "KeyError"
JSONDecodeError == "JSONDecodeError"
NoError == "none"

\* Severity(value): the enum's lookup by value; ValueError for any other value.
Severity(v) ==
    IF \E m \in SeverityMembers : SeverityValue(m) = v
    THEN CHOOSE m \in SeverityMembers : SeverityValue(m) = v
    ELSE ValueError

-----------------------------------------------------------------------------
(* Rule objects *)

\* BaseRule.__init__: enabled, WARNING, empty config; the subclass then sets
\* its own severity and config.  A dict is a set of <<key, value>> pairs.
BaseRule(rule_id) ==
    [rule_id |-> rule_id, enabled |-> TRUE, severity |-> "WARNING", config |-> {}]

\* The ten rules RuleEngine._load_all_rules creates, in list order.
RuleIdList ==
    <<"C001", "C002", "C003", "C004", "C005", "L001", "L002", "L003", "L004", "L005">>

DefaultSeverity(rule_id) ==
    CASE rule_id \in {"C001", "C002", "C004", "C005", "L001", "L005"} -> "CRITICAL"
      [] rule_id \in {"C003", "L002"} -> "WARNING"
      [] rule_id \in {"L003", "L004", "S002"} -> "SUGGESTION"
      [] OTHER -> "WARNING"

\* Instances the registry constructs itself.
LoadedInsts == DOMAIN RuleIdList

\* Instances a caller constructs and hands to add_rule:
\*   FunctionLengthInst: FunctionLengthRule(), id S002, with its config;
\*   SecondArrayBoundsInst: another rule object with id C001 that the caller
\*   has configured (disabled, SUGGESTION, own config) before adding it.
FunctionLengthInst == Len(RuleIdList) + 1
SecondArrayBoundsInst == Len(RuleIdList) + 2
CallerInsts == {FunctionLengthInst, SecondArrayBoundsInst}
Insts == LoadedInsts \cup CallerInsts

FunctionLengthRule ==
    [BaseRule("S002") EXCEPT !.severity = "SUGGESTION",
                             !.config = {<<"max_lines", 50>>, <<"warning_lines", 30>>}]

SecondArrayBoundsRule ==
    [BaseRule("C001") EXCEPT !.enabled = FALSE, !.severity = "SUGGESTION",
                             !.config = {<<"max_index", 8>>}]

\* The heap right after construction of the engine and of the caller's objects.
InitialObjs ==
    [i \in Insts |->
        IF i \in LoadedInsts
        THEN [BaseRule(RuleIdList[i]) EXCEPT !.severity = DefaultSeverity(RuleIdList[i])]
        ELSE IF i = FunctionLengthInst THEN FunctionLengthRule
        ELSE SecondArrayBoundsRule]

\* RuleEngine._load_all_rules
_load_all_rules == [i \in LoadedInsts |-> i]

RuleIds(os, rs) == {os[rs[k]].rule_id : k \in DOMAIN rs}

-----------------------------------------------------------------------------
(* Templates *)

\* A settings entry of rule_settings: a JSON value.  is_dict is FALSE for an
\* entry that is not a mapping (a number), on which the "in" test raises
\* TypeError; has_severity / has_config say which keys the mapping holds.
Settings(has_sev, sev, has_cfg, cfg) ==
    [is_dict |-> TRUE, has_severity |-> has_sev, severity |-> sev,
     has_config |-> has_cfg, config |-> cfg]
NotADict ==
    [is_dict |-> FALSE, has_severity |-> FALSE, severity |-> "",
     has_config |-> FALSE, config |-> <<>>]
NoSettings == [id \in {} |-> NotADict]

Template(has_name, enabled_rules, rule_settings) ==
    [has_name |-> has_name, enabled_rules |-> enabled_rules,
     rule_settings |-> rule_settings, custom |-> FALSE]

\* The built-in templates of RuleEngine._load_templates; "enterprise" lists
\* the ids of the rules registered at construction time.
BuiltinTemplates(os, rs) ==
    [n \in {"beginner", "c_traps", "embedded", "misra_c", "enterprise"} |->
        CASE n = "beginner" ->
                Template(TRUE, <<"C001", "C002", "L001", "L002", "L005">>, NoSettings)
          [] n = "c_traps" ->
                Template(TRUE, <<"C001", "C002", "C004", "L001", "L002", "L005">>, NoSettings)
          [] n = "embedded" ->
                Template(TRUE, <<"C001", "C002", "C003", "C004", "L001", "L005">>, NoSettings)
          [] n = "misra_c" ->
                Template(TRUE, <<"C001", "C002", "C003", "C004", "C005", "L001", "L002">>,
                         NoSettings)
          [] n = "enterprise" ->
                Template(TRUE, [k \in DOMAIN rs |-> os[rs[k]].rule_id], NoSettings)]

\* Contents a templates/*.json file may have (the file's stem is the key):
\* a well-formed template with severity overrides, one whose severity string
\* is no Severity value, one whose settings entry is not a mapping, and one
\* without a "name" key.
FileTemplates ==
    { Template(TRUE, <<"C001", "L003", "Z999">>,
               [id \in {"C001", "L003"} |->
                   IF id = "C001" THEN Settings(TRUE, "jianyi", FALSE, <<>>)
                                  ELSE Settings(FALSE, "", FALSE, <<>>)]),
      Template(TRUE, <<"C002", "L005">>,
               [id \in {"C002"} |-> Settings(TRUE, "Critical", FALSE, <<>>)]),
      Template(TRUE, <<"L005", "S002">>,
               [id \in {"L001"} |-> NotADict]),
      Template(FALSE, <<"C005">>,
               [id \in {"C005"} |-> Settings(TRUE, "jinggao", FALSE, <<>>)]) }

FileTemplateKey == "team"

\* RuleEngine._load_templates: the built-ins, then every file of the
\* templates directory under its stem.
_load_templates(os, rs, files) ==
    [n \in DOMAIN BuiltinTemplates(os, rs) \cup DOMAIN files |->
        IF n \in DOMAIN files THEN files[n] ELSE BuiltinTemplates(os, rs)[n]]

TemplatesDirs ==
    {[n \in {} |-> 0]} \cup {[n \in {FileTemplateKey} |-> t] : t \in FileTemplates}

-----------------------------------------------------------------------------
(* RuleEngine.apply_template *)

\* Mutant of apply_template_rule: the template only ever enables rules.
apply_template_rule_additive(o, enabled_rules, rule_settings) ==
    [obj |-> [o EXCEPT !.enabled = o.enabled \/ InSeq(o.rule_id, enabled_rules)],
     error |-> NoError]

\* Mutant of apply_template_rule: a rule without a severity setting goes
\* back to the severity its constructor gave it.
apply_template_rule_reset(o, enabled_rules, rule_settings) ==
    LET o1 == [o EXCEPT !.enabled = InSeq(o.rule_id, enabled_rules)]
    IN  IF o.rule_id \in DOMAIN rule_settings
           /\ rule_settings[o.rule_id].is_dict
           /\ rule_settings[o.rule_id].has_severity
           /\ Severity(rule_settings[o.rule_id].severity) # ValueError
        THEN [obj |-> [o1 EXCEPT !.severity = Severity(rule_settings[o.rule_id].severity)],
              error |-> NoError]
        ELSE [obj |-> [o1 EXCEPT !.severity = DefaultSeverity(o.rule_id)],
              error |-> NoError]

\* The loop body for one rule object o: the new object and the exception it
\* raised, if any.  The enabled flag is assigned before the settings are read.
apply_template_rule(o, enabled_rules, rule_settings) ==
    LET o1 == [o EXCEPT !.enabled = InSeq(o.rule_id, enabled_rules)]
    IN  IF o.rule_id \in DOMAIN rule_settings
        THEN LET settings == rule_settings[o.rule_id]
             IN  IF ~settings.is_dict
                 THEN [obj |-> o1, error |-> TypeError]
                 ELSE IF settings.has_severity
                 THEN IF Severity(settings.severity) = ValueError
                      THEN [obj |-> o1, error |-> ValueError]
                      ELSE [obj |-> [o1 EXCEPT !.severity = Severity(settings.severity)],
                            error |-> NoError]
                 ELSE [obj |-> o1, error |-> NoError]
        ELSE [obj |-> o1, error |-> NoError]

\* for rule in self.rules: ... ; stops at the first exception.
RECURSIVE apply_template_loop(_, _, _, _, _)
apply_template_loop(os, rs, k, enabled_rules, rule_settings) ==
    IF k > Len(rs)
    THEN [objs |-> os, error |-> NoError]
    ELSE LET r == apply_template_rule(os[rs[k]], enabled_rules, rule_settings)
             os1 == [os EXCEPT ![rs[k]] = r.obj]
         IN  IF r.error # NoError
             THEN [objs |-> os1, error |-> r.error]
             ELSE apply_template_loop(os1, rs, k + 1, enabled_rules, rule_settings)

\* Mutant of apply_template: an unknown name is read as an empty template.
apply_template_unknown_as_empty(os, rs, templates, template_name) ==
    IF template_name \notin DOMAIN templates
    THEN apply_template_loop(os, rs, 1, <<>>, NoSettings)
    ELSE apply_template_loop(os, rs, 1, templates[template_name].enabled_rules,
                             templates[template_name].rule_settings)

\* An unknown name returns at once; the closing print reads template['name'].
apply_template(os, rs, templates, template_name) ==
    IF template_name \notin DOMAIN templates
    THEN [objs |-> os, error |-> NoError]
    ELSE LET template == templates[template_name]
             r == apply_template_loop(os, rs, 1, template.enabled_rules,
                                      template.rule_settings)
         IN  IF r.error = NoError /\ ~template.has_name
             THEN [objs |-> r.objs, error |-> KeyError]
             ELSE r

-----------------------------------------------------------------------------
(* RuleEngine.get_rule_by_id, add_rule, remove_rule *)

None == 0

\* The first rule of the list with that id, or None.
get_rule_by_id(os, rs, rule_id) ==
    IF \E k \in DOMAIN rs : os[rs[k]].rule_id = rule_id
    THEN rs[CHOOSE k \in DOMAIN rs :
                /\ os[rs[k]].rule_id = rule_id
                /\ \A j \in DOMAIN rs : os[rs[j]].rule_id = rule_id => k <= j]
    ELSE None

remove_rule(os, rs, rule_id) ==
    SelectSeq(rs, LAMBDA i : os[i].rule_id # rule_id)

\* Mutant of add_rule: the rule is appended without replacing the old one.
add_rule_append_only(os, rs, rule) == Append(rs, rule)

add_rule(os, rs, rule) ==
    IF get_rule_by_id(os, rs, os[rule].rule_id) # None
    THEN Append(remove_rule(os, rs, os[rule].rule_id), rule)
    ELSE Append(rs, rule)

-----------------------------------------------------------------------------
(* JSON: json.dump / json.load of a dict *)

\* A JSON object is its member list, in the dict's order.
json_dump_dict(d) ==
    CHOOSE s \in [1..Cardinality(d) -> d] : \A x \in d : InSeq(x, s)

\* json.load builds the dict member by member: a repeated key keeps its last value.
json_load_dict(s) ==
    {s[j] : j \in {i \in DOMAIN s : \A k \in DOMAIN s : k > i => s[k][1] # s[i][1]}}

-----------------------------------------------------------------------------
(* RuleEngine.import_config *)

\* Mutant of import_config_rule: the ValueError of an invalid severity is
\* not caught.
import_config_rule_uncaught(o, enabled_rules, rule_settings) ==
    LET o1 == [o EXCEPT !.enabled = InSeq(o.rule_id, enabled_rules)]
    IN  IF o.rule_id \in DOMAIN rule_settings
        THEN LET settings == rule_settings[o.rule_id]
                 o2 == IF settings.has_severity /\ Severity(settings.severity) # ValueError
                       THEN [o1 EXCEPT !.severity = Severity(settings.severity)]
                       ELSE o1
                 o3 == IF settings.has_config
                       THEN [o2 EXCEPT !.config = json_load_dict(settings.config)]
                       ELSE o2
             IN  IF ~settings.is_dict
                 THEN [obj |-> o1, error |-> TypeError]
                 ELSE IF settings.has_severity /\ Severity(settings.severity) = ValueError
                 THEN [obj |-> o1, error |-> ValueError]
                 ELSE [obj |-> o3, error |-> NoError]
        ELSE [obj |-> o1, error |-> NoError]

\* The loop body for one rule object: an invalid severity is caught and
\* skipped, the config is assigned after it.
import_config_rule(o, enabled_rules, rule_settings) ==
    LET o1 == [o EXCEPT !.enabled = InSeq(o.rule_id, enabled_rules)]
    IN  IF o.rule_id \in DOMAIN rule_settings
        THEN LET settings == rule_settings[o.rule_id]
                 o2 == IF settings.has_severity /\ Severity(settings.severity) # ValueError
                       THEN [o1 EXCEPT !.severity = Severity(settings.severity)]
                       ELSE o1
                 o3 == IF settings.has_config
                       THEN [o2 EXCEPT !.config = json_load_dict(settings.config)]
                       ELSE o2
             IN  IF ~settings.is_dict
                 THEN [obj |-> o1, error |-> TypeError]
                 ELSE [obj |-> o3, error |-> NoError]
        ELSE [obj |-> o1, error |-> NoError]

RECURSIVE import_config_loop(_, _, _, _, _)
import_config_loop(os, rs, k, enabled_rules, rule_settings) ==
    IF k > Len(rs)
    THEN [objs |-> os, error |-> NoError]
    ELSE LET r == import_config_rule(os[rs[k]], enabled_rules, rule_settings)
             os1 == [os EXCEPT ![rs[k]] = r.obj]
         IN  IF r.error # NoError
             THEN [objs |-> os1, error |-> r.error]
             ELSE import_config_loop(os1, rs, k + 1, enabled_rules, rule_settings)

\* config: what the file holds.  parses is FALSE for a file json.load rejects;
\* every exception is printed and raised again.
import_config(os, rs, config) ==
    IF ~config.parses
    THEN [objs |-> os, error |-> JSONDecodeError]
    ELSE import_config_loop(os, rs, 1, config.enabled_rules, config.rule_settings)

ConfigFile(enabled_rules, rule_settings) ==
    [parses |-> TRUE, enabled_rules |-> enabled_rules, rule_settings |-> rule_settings]

\* Configuration files a user may import.
ConfigFiles ==
    { ConfigFile(<<"C001", "L002">>,
                 [id \in {"C001", "L002", "L005"} |->
                     CASE id = "C001" -> Settings(TRUE, "jinggao", TRUE, <<<<"limit", 1>>>>)
                       [] id = "L002" -> Settings(TRUE, "Critical", TRUE, <<<<"window", 5>>>>)
                       [] id = "L005" -> Settings(TRUE, "jianyi", FALSE, <<>>)]),
      ConfigFile(<<"L001", "S002">>,
                 [id \in {"C001", "S002"} |->
                     CASE id = "C001" -> Settings(TRUE, "WARNING", FALSE, <<>>)
                       [] id = "S002" -> Settings(TRUE, "yanzhong", TRUE,
                                                  <<<<"max_lines", 80>>>>)]),
      ConfigFile(<<>>, NoSettings),
      ConfigFile(<<"C001", "C002", "C003">>,
                 [id \in {"C001", "C002"} |->
                     IF id = "C001" THEN Settings(TRUE, "jianyi", FALSE, <<>>)
                                    ELSE NotADict]),
      [parses |-> FALSE, enabled_rules |-> <<>>, rule_settings |-> NoSettings] }

-----------------------------------------------------------------------------
(* RuleEngine.export_config *)

\* [rule.rule_id for rule in self.rules if rule.enabled]
EnabledIds(os, rs) ==
    LET en == SelectSeq(rs, LAMBDA i : os[i].enabled)
    IN  [k \in DOMAIN en |-> os[en[k]].rule_id]

\* Mutant of export_settings: the member's name is written, not its value.
export_settings_member_name(o) ==
    [is_dict |-> TRUE, enabled |-> o.enabled,
     has_severity |-> TRUE, severity |-> o.severity,
     has_config |-> TRUE, config |-> json_dump_dict(o.config)]

\* The entry of one rule: enabled, severity.value and config (the category,
\* which no call changes, is left out).
export_settings(o) ==
    [is_dict |-> TRUE, enabled |-> o.enabled,
     has_severity |-> TRUE, severity |-> SeverityValue(o.severity),
     has_config |-> TRUE, config |-> json_dump_dict(o.config)]

\* The dict json.dump writes; a later rule with the same id overwrites the entry.
export_config(os, rs) ==
    [parses |-> TRUE,
     enabled_rules |-> EnabledIds(os, rs),
     rule_settings |->
        [id \in RuleIds(os, rs) |->
            export_settings(os[rs[CHOOSE k \in DOMAIN rs :
                                     /\ os[rs[k]].rule_id = id
                                     /\ \A j \in DOMAIN rs :
                                           os[rs[j]].rule_id = id => j <= k]])]]

-----------------------------------------------------------------------------
(* Parsed files and RuleEngine.check_files *)

AllRuleIds == {RuleIdList[k] : k \in DOMAIN RuleIdList} \cup {"S002"}

\* str.lower on a file suffix.
Lower(suffix) ==
    CASE suffix = ".H" -> ".h"
      [] suffix = ".C" -> ".c"
      [] suffix = ".TXT" -> ".txt"
      [] OTHER -> suffix

c_extensions == {".c", ".h", ".cpp", ".hpp", ".cc", ".cxx"}

\* BaseRule.is_applicable
is_applicable(file_info) == Lower(file_info.suffix) \in c_extensions

\* A parsed file, with what each rule's check does on it: the line numbers
\* it reports, in the order it reports them, or the ids of the rules whose
\* check raises on this file.
ParsedFile(path, suffix, findings, raises) ==
    [path |-> path, suffix |-> suffix,
     findings |-> [id \in AllRuleIds |->
                     IF \E x \in findings : x[1] = id
                     THEN (CHOOSE x \in findings : x[1] = id)[2]
                     ELSE << >>],
     raises |-> raises]

MainC == ParsedFile("main.c", ".c",
            {<<"C001", <<3, 1>> >>, <<"L002", <<2>> >>, <<"C002", <<5>> >>,
             <<"S002", <<4, 4>> >>}, {"C002"})
UtilH == ParsedFile("UTIL.H", ".H",
            {<<"C001", <<1>> >>, <<"L001", <<2, 1>> >>}, {"L005"})
NotesTxt == ParsedFile("notes.txt", ".txt",
            {<<"C001", <<1>> >>, <<"L001", <<1>> >>, <<"L005", <<1>> >>}, {"C003"})

FileLists == {<< >>, <<MainC>>, <<UtilH, MainC>>, <<NotesTxt, MainC, UtilH>>}

\* The Issue a rule builds: its own id and its severity at the time of the check.
Issue(o, file_info, line_number) ==
    [rule_id |-> o.rule_id, file_path |-> file_info.path,
     line_number |-> line_number, severity |-> o.severity]

\* Mutant of rule_check: a rule that escalates itself once it has reported.
rule_check_escalating(o, file_info) ==
    IF o.rule_id \in file_info.raises
    THEN [raised |-> TRUE, issues |-> << >>, obj |-> o]
    ELSE LET found == file_info.findings[o.rule_id]
         IN  [raised |-> FALSE,
              issues |-> [j \in DOMAIN found |-> Issue(o, file_info, found[j])],
              obj |-> IF found # << >>
                      THEN [o EXCEPT !.severity = "CRITICAL"] ELSE o]

\* rule.check(file_info, parser): raises, or returns its issues; no check of
\* the repository assigns to the rule object or to file_info.
rule_check(o, file_info) ==
    IF o.rule_id \in file_info.raises
    THEN [raised |-> TRUE, issues |-> << >>, obj |-> o]
    ELSE LET found == file_info.findings[o.rule_id]
         IN  [raised |-> FALSE,
              issues |-> [j \in DOMAIN found |-> Issue(o, file_info, found[j])],
              obj |-> o]

\* Mutant of check_rule: no try / except around the rule.
check_rule_uncaught(os, rule, file_info) ==
    IF is_applicable(file_info)
    THEN LET r == rule_check(os[rule], file_info)
         IN  [issues |-> r.issues, objs |-> [os EXCEPT ![rule] = r.obj],
              invoked |-> TRUE,
              error |-> IF r.raised THEN "Exception" ELSE NoError]
    ELSE [issues |-> << >>, objs |-> os, invoked |-> FALSE, error |-> NoError]

\* The body of the loop over enabled_rules: try: if is_applicable: check,
\* extend; except Exception: print.
check_rule(os, rule, file_info) ==
    IF is_applicable(file_info)
    THEN LET r == rule_check(os[rule], file_info)
         IN  [issues |-> r.issues, objs |-> [os EXCEPT ![rule] = r.obj],
              invoked |-> TRUE, error |-> NoError]
    ELSE [issues |-> << >>, objs |-> os, invoked |-> FALSE, error |-> NoError]

\* for rule in enabled_rules, from position k on, for the file at position f.
RECURSIVE check_file(_, _, _, _, _)
check_file(os, enabled_rules, k, parsed_files, f) ==
    IF k > Len(enabled_rules)
    THEN [issues |-> << >>, objs |-> os, invoked |-> << >>, error |-> NoError]
    ELSE LET r == check_rule(os, enabled_rules[k], parsed_files[f])
             inv == IF r.invoked
                    THEN << [file |-> f, rule |-> enabled_rules[k]] >> ELSE << >>
         IN  IF r.error # NoError
             THEN [issues |-> r.issues, objs |-> r.objs, invoked |-> inv,
                   error |-> r.error]
             ELSE LET rest == check_file(r.objs, enabled_rules, k + 1, parsed_files, f)
                  IN  [issues |-> r.issues \o rest.issues, objs |-> rest.objs,
                       invoked |-> inv \o rest.invoked, error |-> rest.error]

\* for i, file_info in enumerate(parsed_files), from position f on.
RECURSIVE check_files_loop(_, _, _, _)
check_files_loop(os, enabled_rules, parsed_files, f) ==
    IF f > Len(parsed_files)
    THEN [issues |-> << >>, objs |-> os, invoked |-> << >>, error |-> NoError]
    ELSE LET r == check_file(os, enabled_rules, 1, parsed_files, f)
         IN  IF r.error # NoError
             THEN r
             ELSE LET rest == check_files_loop(r.objs, enabled_rules, parsed_files, f + 1)
                  IN  [issues |-> r.issues \o rest.issues, objs |-> rest.objs,
                       invoked |-> r.invoked \o rest.invoked, error |-> rest.error]

\* Mutant of get_enabled_rules: every registered rule.
get_enabled_rules_all(os, rs) == rs

\* RuleEngine.get_enabled_rules
get_enabled_rules(os, rs) == SelectSeq(rs, LAMBDA i : os[i].enabled)

\* RuleEngine.check_files
check_files(os, rs, parsed_files) ==
    LET enabled_rules == get_enabled_rules(os, rs)
    IN  IF enabled_rules = << >>
        THEN [issues |-> << >>, objs |-> os, invoked |-> << >>, error |-> NoError]
        ELSE check_files_loop(os, enabled_rules, parsed_files, 1)

-----------------------------------------------------------------------------
(* Lines of a file: CodeParser.parse_file, the row of a tree-sitter node,
   BaseRule.create_issue and CommentQualityRule.check *)

MaxLen == 4

Chars == {"x", "/", " ", "\n"}

\* What read_file_content returns: text whose line ends are all "\n".
Contents == UNION {[1..n -> Chars] : n \in 0..MaxLen}

\* The number of "\n" among the first n characters.
Newlines(content, n) == Cardinality({j \in 1..n : content[j] = "\n"})

\* content.split('\n'): the pieces between consecutive "\n".
split(content) ==
    LET cuts == [k \in 0..(Newlines(content, Len(content)) + 1) |->
                    IF k = 0 THEN 0
                    ELSE IF k = Newlines(content, Len(content)) + 1
                    THEN Len(content) + 1
                    ELSE CHOOSE j \in 1..Len(content) :
                            content[j] = "\n" /\ Newlines(content, j) = k]
    IN  [k \in 1..(Newlines(content, Len(content)) + 1) |->
            SubSeq(content, cuts[k - 1] + 1, cuts[k] - 1)]

\* Mutant of line_count: the lines str.splitlines gives, which has no last
\* empty line after a final "\n".
line_count_splitlines(content) ==
    IF content # << >> /\ content[Len(content)] = "\n"
    THEN Len(split(content)) - 1
    ELSE Len(split(content))

\* parse_file: 'line_count': len(content.split('\n'))
line_count(content) == Len(split(content))

\* node.start_point[0] of a node that starts at offset start_byte.
start_point_row(content, start_byte) == Newlines(content, start_byte)

\* create_issue: line_num = node.start_point[0] + 1
create_issue(o, file, start_byte) ==
    Issue(o, file, start_point_row(file.content, start_byte) + 1)

\* str.strip over blanks.
RECURSIVE strip(_)
strip(text) ==
    IF text = << >> THEN text
    ELSE IF Head(text) \in {" ", "\n"} THEN strip(Tail(text))
    ELSE IF text[Len(text)] \in {" ", "\n"} THEN strip(SubSeq(text, 1, Len(text) - 1))
    ELSE text

\* line.find('//'), counted from 1; 0 when the line has none.
find_comment(line) ==
    IF \E j \in 1..(Len(line) - 1) : line[j] = "/" /\ line[j + 1] = "/"
    THEN CHOOSE j \in 1..(Len(line) - 1) :
            /\ line[j] = "/" /\ line[j + 1] = "/"
            /\ \A i \in 1..(j - 1) : ~(line[i] = "/" /\ line[i + 1] = "/")
    ELSE 0

\* _extract_comment(line, '//')
_extract_comment(line) ==
    IF find_comment(line) # 0
    THEN strip(SubSeq(line, find_comment(line) + 2, Len(line)))
    ELSE << >>

\* _check_comment_quality gives a message for every non-empty comment
\* shorter than 5 characters, and for a longer one when its words all occur
\* in the stripped line, which holds the comment itself.
_check_comment_quality(comment) == comment # << >>

CommentQualityRule == [BaseRule("S004") EXCEPT !.severity = "SUGGESTION"]

\* CommentQualityRule.check: Issue(line_number = i + 1) for the lines, at
\* index i from 0, whose '//' comment is flagged.
CommentQualityRule_check(file) ==
    LET lines == split(file.content)
        flagged == SelectSeq([k \in DOMAIN lines |-> k],
                      LAMBDA k : /\ find_comment(lines[k]) # 0
                                 /\ _check_comment_quality(_extract_comment(lines[k])))
    IN  [j \in DOMAIN flagged |-> Issue(CommentQualityRule, file, flagged[j])]

-----------------------------------------------------------------------------
(* RuleEngine.create_custom_template *)

\* str.lower, character by character.
lower_char(c) ==
    CASE c = "A" -> "a" [] c = "B" -> "b" [] c = "C" -> "c" [] c = "D" -> "d"
      [] c = "E" -> "e" [] c = "F" -> "f" [] c = "G" -> "g" [] c = "H" -> "h"
      [] c = "I" -> "i" [] c = "J" -> "j" [] c = "K" -> "k" [] c = "L" -> "l"
      [] c = "M" -> "m" [] c = "N" -> "n" [] c = "O" -> "o" [] c = "P" -> "p"
      [] c = "Q" -> "q" [] c = "R" -> "r" [] c = "S" -> "s" [] c = "T" -> "t"
      [] c = "U" -> "u" [] c = "V" -> "v" [] c = "W" -> "w" [] c = "X" -> "x"
      [] c = "Y" -> "y" [] c = "Z" -> "z"
      [] OTHER -> c

\* str.replace(' ', '_'), character by character.
replace_char(c) == IF c = " " THEN "_" ELSE c

\* The string made of the characters of a sequence.
RECURSIVE join(_)
join(chars) == IF chars = << >> THEN "" ELSE Head(chars) \o join(Tail(chars))

\* Mutant of template_key: the name is used as it is.
template_key_verbatim(name) == join(name)

\* template_key = name.lower().replace(' ', '_')
template_key(name) ==
    join([j \in DOMAIN name |-> replace_char(lower_char(name[j]))])

\* The ids for which get_rule_by_id finds a rule, in the order given.
valid_rule_ids(os, rs, enabled_rule_ids) ==
    SelectSeq(enabled_rule_ids, LAMBDA id : get_rule_by_id(os, rs, id) # None)

\* The template is stored under its key, replacing any template with that key.
create_custom_template(os, rs, templates, name, enabled_rule_ids) ==
    LET key == template_key(name)
        template == [Template(TRUE, valid_rule_ids(os, rs, enabled_rule_ids), NoSettings)
                        EXCEPT !.custom = TRUE]
    IN  [n \in DOMAIN templates \cup {key} |->
            IF n = key THEN template ELSE templates[n]]

-----------------------------------------------------------------------------
(* RuleEngine.validate_rules *)

\* Mutant of validate_rule: the id is added to rule_ids before it is looked up.
validate_rule_add_first(rule, rule_ids) ==
    << [problem |-> "duplicate rule_id", rule_id |-> rule.rule_id] >>
    \o (IF rule.name_cn = "" THEN << [problem |-> "no name_cn", rule_id |-> rule.rule_id] >>
        ELSE << >>)
    \o (IF rule.description_cn = ""
        THEN << [problem |-> "no description_cn", rule_id |-> rule.rule_id] >>
        ELSE << >>)
    \o (IF rule.category = "" THEN << [problem |-> "no category", rule_id |-> rule.rule_id] >>
        ELSE << >>)

\* The loop body for one rule, rule_ids being the ids of the rules before it.
validate_rule(rule, rule_ids) ==
    (IF rule.rule_id \in rule_ids
     THEN << [problem |-> "duplicate rule_id", rule_id |-> rule.rule_id] >>
     ELSE << >>)
    \o (IF rule.name_cn = "" THEN << [problem |-> "no name_cn", rule_id |-> rule.rule_id] >>
        ELSE << >>)
    \o (IF rule.description_cn = ""
        THEN << [problem |-> "no description_cn", rule_id |-> rule.rule_id] >>
        ELSE << >>)
    \o (IF rule.category = "" THEN << [problem |-> "no category", rule_id |-> rule.rule_id] >>
        ELSE << >>)

RECURSIVE validate_rules_loop(_, _, _)
validate_rules_loop(rs, k, rule_ids) ==
    IF k > Len(rs) THEN << >>
    ELSE validate_rule(rs[k], rule_ids)
         \o validate_rules_loop(rs, k + 1, rule_ids \cup {rs[k].rule_id})

\* validate_rules over self.rules, each rule with the attributes it reads.
validate_rules(rs) == validate_rules_loop(rs, 1, {})

-----------------------------------------------------------------------------
(* Syntax trees: a tree-sitter node is its type, its source text as the
   sequence of its tokens, and its children that are nodes of the grammar;
   a node of a tree is named by the path of child positions from the root. *)

Node(type, text, children) == [type |-> type, text |-> text, children |-> children]

RECURSIVE NodeAt(_, _)
NodeAt(root, path) ==
    IF path = << >> THEN root
    ELSE NodeAt(root.children[Head(path)], Tail(path))

\* node.parent, for a node that is not the root.
Parent(path) == SubSeq(path, 1, Len(path) - 1)

\* CodeParser.get_node_text
get_node_text(root, path) == NodeAt(root, path).text

\* `pattern in text` for the operator patterns looked for: the tokens that
\* hold the pattern's characters.
TokenHolds(token, pattern) ==
    CASE pattern = "=" -> token \in {"=", "==", "!=", "+=", "-=", "*=", "/="}
      [] OTHER -> token = pattern

Contains(text, pattern) == \E j \in DOMAIN text : TokenHolds(text[j], pattern)

\* CodeParser.find_nodes_by_type from the node at path: the node itself
\* first, then its children's subtrees in order.
RECURSIVE find_nodes_by_type(_, _, _)
find_nodes_by_type(root, path, node_type) ==
    (IF NodeAt(root, path).type = node_type THEN << path >> ELSE << >>)
    \o Concat([c \in DOMAIN NodeAt(root, path).children |->
                  find_nodes_by_type(root, Append(path, c), node_type)])

Identifier(name) == Node("identifier", << name >>, << >>)
NumberLiteral(digits) == Node("number_literal", << digits >>, << >>)
AssignmentExpression(left, operator, right) ==
    Node("assignment_expression", left.text \o << operator >> \o right.text,
         << left, right >>)
BinaryExpression(left, operator, right) ==
    Node("binary_expression", left.text \o << operator >> \o right.text,
         << left, right >>)
ParenthesizedExpression(e) ==
    Node("parenthesized_expression", << "(" >> \o e.text \o << ")" >>, << e >>)
CompoundStatement(statements) ==
    Node("compound_statement",
         << "{" >> \o Concat([j \in DOMAIN statements |-> statements[j].text]) \o << "}" >>,
         statements)

-----------------------------------------------------------------------------
(* AssignmentInConditionRule (L001) *)

\* _find_condition_in_statement: the first child that is a
\* parenthesized_expression, as a path, or None.
_find_condition_in_statement(root, stmt) ==
    LET children == NodeAt(root, stmt).children
    IN  IF \E c \in DOMAIN children : children[c].type = "parenthesized_expression"
        THEN << Append(stmt, CHOOSE c \in DOMAIN children :
                        /\ children[c].type = "parenthesized_expression"
                        /\ \A b \in 1..(c - 1) :
                              children[b].type # "parenthesized_expression") >>
        ELSE << >>

_is_simple_assignment(root, assign_node) ==
    LET assign_text == get_node_text(root, assign_node)
    IN  /\ Contains(assign_text, "=")
        /\ ~Contains(assign_text, "==")
        /\ ~Contains(assign_text, "!=")
        /\ ~Contains(assign_text, "+=")
        /\ ~Contains(assign_text, "-=")
        /\ ~Contains(assign_text, "*=")
        /\ ~Contains(assign_text, "/=")

\* The parent and the parent's parent are both parenthesized expressions.
_is_intentional_assignment(root, assign_node) ==
    /\ Len(assign_node) >= 2
    /\ NodeAt(root, Parent(assign_node)).type = "parenthesized_expression"
    /\ NodeAt(root, Parent(Parent(assign_node))).type = "parenthesized_expression"

\* The issues of one condition statement, by the node each is created at.
AssignmentInCondition_statement(root, stmt) ==
    LET condition == _find_condition_in_statement(root, stmt)
    IN  IF condition = << >> THEN << >>
        ELSE LET assign_nodes ==
                    find_nodes_by_type(root, condition[1], "assignment_expression")
                 flagged == SelectSeq(assign_nodes,
                               LAMBDA a : /\ _is_simple_assignment(root, a)
                                          /\ ~_is_intentional_assignment(root, a))
             IN  [j \in DOMAIN flagged |-> [rule_id |-> "L001", node |-> flagged[j]]]

\* AssignmentInConditionRule.check: the if statements, then the while
\* statements, then the for statements of the tree.
AssignmentInConditionRule_check(root) ==
    LET condition_statements ==
            find_nodes_by_type(root, << >>, "if_statement")
            \o find_nodes_by_type(root, << >>, "while_statement")
            \o find_nodes_by_type(root, << >>, "for_statement")
    IN  Concat([j \in DOMAIN condition_statements |->
                  AssignmentInCondition_statement(root, condition_statements[j])])

-----------------------------------------------------------------------------
(* SwitchFallthroughRule (L002) *)

\* `pattern in text` for strings as sequences of characters.
In(pattern, text) ==
    \E i \in 0..(Len(text) - Len(pattern)) :
        SubSeq(text, i + 1, i + Len(pattern)) = pattern

\* A node with the row of its start point (start_point[0], from 0).
NodeOn(type, text, children, row) ==
    [type |-> type, text |-> text, children |-> children, row |-> row]

\* _find_switch_body: the first compound_statement child, or None.
_find_switch_body(root, switch_node) ==
    LET children == NodeAt(root, switch_node).children
    IN  IF \E c \in DOMAIN children : children[c].type = "compound_statement"
        THEN << Append(switch_node, CHOOSE c \in DOMAIN children :
                        /\ children[c].type = "compound_statement"
                        /\ \A b \in 1..(c - 1) : children[b].type # "compound_statement") >>
        ELSE << >>

\* _has_break_or_return: a break or return of the case's parent whose row
\* is after the case's row and before the next case's row.
_has_break_or_return(root, all_cases, case_index) ==
    LET case_node == all_cases[case_index]
        case_start_line == NodeAt(root, case_node).row
        in_range(n) ==
            /\ NodeAt(root, n).row > case_start_line
            /\ \/ case_index + 1 > Len(all_cases)
               \/ NodeAt(root, n).row < NodeAt(root, all_cases[case_index + 1]).row
        break_nodes == find_nodes_by_type(root, Parent(case_node), "break_statement")
        return_nodes == find_nodes_by_type(root, Parent(case_node), "return_statement")
    IN  \/ \E j \in DOMAIN break_nodes : in_range(break_nodes[j])
        \/ \E j \in DOMAIN return_nodes : in_range(return_nodes[j])

\* Mutant of _has_fallthrough_comment: the five lines after the case's line.
_has_fallthrough_comment_after(root, lines, case_node) ==
    LET case_line == NodeAt(root, case_node).row + 1
        last_line == IF case_line + 5 < Len(lines) THEN case_line + 5 ELSE Len(lines)
    IN  \E i \in case_line..(last_line - 1) :
            LET line_content == [c \in DOMAIN lines[i + 1] |-> lower_char(lines[i + 1][c])]
            IN  \/ In(<< "f", "a", "l", "l", "t", "h", "r", "o", "u", "g", "h" >>, line_content)
                \/ In(<< "f", "a", "l", "l", " ", "t", "h", "r", "o", "u", "g", "h" >>,
                      line_content)
                \/ In(<< "f", "a", "l", "l", "s", " ", "t", "h", "r", "o", "u", "g", "h" >>,
                      line_content)

\* _has_fallthrough_comment: one of the five lines from the case's line on,
\* in lower case, holds 'fallthrough', 'fall through' or 'falls through';
\* lines is content.split('\n'), counted from 0 there.
_has_fallthrough_comment(root, lines, case_node) ==
    LET case_line == NodeAt(root, case_node).row
        last_line == IF case_line + 5 < Len(lines) THEN case_line + 5 ELSE Len(lines)
    IN  \E i \in case_line..(last_line - 1) :
            LET line_content == [c \in DOMAIN lines[i + 1] |-> lower_char(lines[i + 1][c])]
            IN  \/ In(<< "f", "a", "l", "l", "t", "h", "r", "o", "u", "g", "h" >>, line_content)
                \/ In(<< "f", "a", "l", "l", " ", "t", "h", "r", "o", "u", "g", "h" >>,
                      line_content)
                \/ In(<< "f", "a", "l", "l", "s", " ", "t", "h", "r", "o", "u", "g", "h" >>,
                      line_content)

\* The issues of one switch statement, by the case node each is created at.
SwitchFallthrough_switch(root, lines, switch_node) ==
    LET switch_body == _find_switch_body(root, switch_node)
    IN  IF switch_body = << >> THEN << >>
        ELSE LET case_nodes == find_nodes_by_type(root, switch_body[1], "case_statement")
                 flagged == SelectSeq([i \in DOMAIN case_nodes |-> i],
                               LAMBDA i :
                                  /\ ~_has_break_or_return(root, case_nodes, i)
                                  /\ ~_has_fallthrough_comment(root, lines, case_nodes[i]))
             IN  [j \in DOMAIN flagged |->
                    [rule_id |-> "L002", node |-> case_nodes[flagged[j]]]]

\* SwitchFallthroughRule.check
SwitchFallthroughRule_check(root, lines) ==
    LET switch_nodes == find_nodes_by_type(root, << >>, "switch_statement")
    IN  Concat([j \in DOMAIN switch_nodes |->
                  SwitchFallthrough_switch(root, lines, switch_nodes[j])])

-----------------------------------------------------------------------------
(* ArrayBoundsRule (C001).  The text of a literal is the sequence of its
   characters; node.children of a subscript or of an array declarator holds
   the bracket tokens too. *)

Token(t) == Node(t, << t >>, << >>)

DecimalDigits == {"0", "1", "2", "3", "4", "5", "6", "7", "8", "9"}

DigitValue(c) ==
    CASE c = "0" -> 0 [] c = "1" -> 1 [] c = "2" -> 2 [] c = "3" -> 3
      [] c = "4" -> 4 [] c = "5" -> 5 [] c = "6" -> 6 [] c = "7" -> 7
      [] c = "8" -> 8 [] c = "9" -> 9

\* The digits of int(text): the text without its sign.
Unsigned(text) ==
    IF text # << >> /\ Head(text) \in {"-", "+"} THEN Tail(text) ELSE text

\* The value of a run of digits read in a base.
RECURSIVE DigitsValue(_, _)
DigitsValue(digits, base) ==
    IF digits = << >> THEN 0
    ELSE DigitsValue(SubSeq(digits, 1, Len(digits) - 1), base) * base
         + DigitValue(digits[Len(digits)])

\* _is_numeric_constant: int(text) does not raise, which is a sign at most
\* and then decimal digits only.
_is_numeric_constant(text) ==
    /\ Unsigned(text) # << >>
    /\ \A j \in DOMAIN Unsigned(text) : Unsigned(text)[j] \in DecimalDigits

\* int(text), which reads every run of digits in base ten.
int(text) ==
    IF text # << >> /\ Head(text) = "-"
    THEN 0 - DigitsValue(Unsigned(text), 10)
    ELSE DigitsValue(Unsigned(text), 10)

\* _find_array_size: the size of the first array_declarator of the tree that
\* has the name and a numeric size, as << size >>; << >> for None.
_find_array_size(root, array_name) ==
    LET decl_nodes == find_nodes_by_type(root, << >>, "array_declarator")
        sized == SelectSeq(decl_nodes,
                    LAMBDA d :
                       /\ Len(NodeAt(root, d).children) >= 3
                       /\ get_node_text(root, Append(d, 1)) = array_name
                       /\ _is_numeric_constant(strip(get_node_text(root, Append(d, 3)))))
    IN  IF sized = << >> THEN << >>
        ELSE << int(strip(get_node_text(root, Append(sized[1], 3)))) >>

\* The issues of one subscript expression.
ArrayBounds_subscript(root, node) ==
    IF Len(NodeAt(root, node).children) >= 3
    THEN LET index_text == strip(get_node_text(root, Append(node, 3)))
             array_name == get_node_text(root, Append(node, 1))
             array_size == _find_array_size(root, array_name)
         IN  IF /\ _is_numeric_constant(index_text)
                /\ array_size # << >>
                /\ \/ int(index_text) >= array_size[1]
                   \/ int(index_text) < 0
             THEN << [rule_id |-> "C001", node |-> node] >>
             ELSE << >>
    ELSE << >>

\* ArrayBoundsRule.check
ArrayBoundsRule_check(root) ==
    LET subscript_nodes == find_nodes_by_type(root, << >>, "subscript_expression")
    IN  Concat([j \in DOMAIN subscript_nodes |->
                  ArrayBounds_subscript(root, subscript_nodes[j])])

-----------------------------------------------------------------------------
(* DivisionByZeroRule (L005).  The text of a node is the sequence of the
   characters of its source; node.children of a binary expression holds the
   operator between the operands. *)

\* The source of parts written with one blank between them.
RECURSIVE Spaced(_)
Spaced(parts) ==
    IF parts = << >> THEN << >>
    ELSE IF Len(parts) = 1 THEN parts[1]
    ELSE parts[1] \o << " " >> \o Spaced(Tail(parts))

\* _find_containing_function: the nearest ancestor that is a
\* function_definition, as << path >>; << >> for None.
_find_containing_function(root, node) ==
    LET ancestors == {n \in 0..(Len(node) - 1) :
                         NodeAt(root, SubSeq(node, 1, n)).type = "function_definition"}
    IN  IF ancestors = {} THEN << >>
        ELSE << SubSeq(node, 1, CHOOSE n \in ancestors : \A a \in ancestors : a <= n) >>

_has_zero_check_unguarded(root, division_node, divisor_name) == FALSE

\* _has_zero_check: an if statement of the containing function whose text
\* holds `name != 0`, `name > 0` or `0 != name`.
_has_zero_check(root, division_node, divisor_name) ==
    LET func_node == _find_containing_function(root, division_node)
    IN  IF func_node = << >> THEN FALSE
        ELSE LET if_nodes == find_nodes_by_type(root, func_node[1], "if_statement")
             IN  \E j \in DOMAIN if_nodes :
                    LET if_text == get_node_text(root, if_nodes[j])
                    IN  \/ In(divisor_name \o << " ", "!", "=", " ", "0" >>, if_text)
                        \/ In(divisor_name \o << " ", ">", " ", "0" >>, if_text)
                        \/ In(<< "0", " ", "!", "=", " " >> \o divisor_name, if_text)

\* The issues of one binary expression; o is the rule object.
DivisionByZero_binary(o, root, binary_node) ==
    IF Len(NodeAt(root, binary_node).children) >= 3
    THEN LET op_text == get_node_text(root, Append(binary_node, 2))
             right_text == strip(get_node_text(root, Append(binary_node, 3)))
         IN  IF op_text \in {<< "/" >>, << "%" >>}
             THEN IF right_text = << "0" >> \/ right_text = << "0", ".", "0" >>
                  THEN << [rule_id |-> o.rule_id, node |-> binary_node,
                           severity |-> o.severity] >>
                  ELSE IF ~_has_zero_check(root, binary_node, right_text)
                  THEN << [rule_id |-> o.rule_id, node |-> binary_node,
                           severity |-> "WARNING"] >>
                  ELSE << >>
             ELSE << >>
    ELSE << >>

\* DivisionByZeroRule.check
DivisionByZeroRule_check(o, root) ==
    LET binary_nodes == find_nodes_by_type(root, << >>, "binary_expression")
    IN  Concat([j \in DOMAIN binary_nodes |->
                  DivisionByZero_binary(o, root, binary_nodes[j])])

-----------------------------------------------------------------------------
(* UnusedVariableRule (L003) *)

\* CodeParser.find_function_definitions: the function definitions with a
\* function_declarator child that has an identifier child.
find_function_definitions(root) ==
    SelectSeq(find_nodes_by_type(root, << >>, "function_definition"),
        LAMBDA f :
            \E c \in DOMAIN NodeAt(root, f).children :
                /\ NodeAt(root, f).children[c].type = "function_declarator"
                /\ \A b \in 1..(c - 1) :
                      NodeAt(root, f).children[b].type # "function_declarator"
                /\ \E i \in DOMAIN NodeAt(root, f).children[c].children :
                      NodeAt(root, f).children[c].children[i].type = "identifier")

_is_likely_type_name(name) ==
    name \in {<< "int" >>, << "char" >>, << "float" >>, << "double" >>, << "void" >>,
              << "long" >>, << "short" >>, << "unsigned" >>, << "signed" >>,
              << "const" >>, << "volatile" >>, << "static" >>, << "extern" >>}

\* _extract_variable_names_from_declaration: the text of every identifier
\* under the declaration that is not a type keyword.
_extract_variable_names_from_declaration(root, decl_node) ==
    LET identifiers == find_nodes_by_type(root, decl_node, "identifier")
        kept == SelectSeq(identifiers,
                    LAMBDA i : ~_is_likely_type_name(get_node_text(root, i)))
    IN  [j \in DOMAIN kept |-> get_node_text(root, kept[j])]

\* _collect_variable_declarations: name and declaration node, in order.
_collect_variable_declarations(root, func_node) ==
    LET decl_nodes == find_nodes_by_type(root, func_node, "declaration")
    IN  Concat([d \in DOMAIN decl_nodes |->
                  LET var_names ==
                          _extract_variable_names_from_declaration(root, decl_nodes[d])
                  IN  [j \in DOMAIN var_names |->
                          [name |-> var_names[j], node |-> decl_nodes[d]]]])

\* _is_in_declaration: some ancestor is a declaration.
_is_in_declaration(root, identifier_node) ==
    \E n \in 0..(Len(identifier_node) - 1) :
        NodeAt(root, SubSeq(identifier_node, 1, n)).type = "declaration"

\* _collect_variable_usages: the set of the texts of the identifiers of the
\* function that are not in a declaration.
_collect_variable_usages(root, func_node) ==
    LET identifiers == find_nodes_by_type(root, func_node, "identifier")
    IN  {get_node_text(root, identifiers[j]) :
            j \in {i \in DOMAIN identifiers : ~_is_in_declaration(root, identifiers[i])}}

\* The issues of one function.
UnusedVariable_function(root, func_node) ==
    LET declared_vars == _collect_variable_declarations(root, func_node)
        used_vars == _collect_variable_usages(root, func_node)
        unused == SelectSeq(declared_vars, LAMBDA v : v.name \notin used_vars)
    IN  [j \in DOMAIN unused |->
            [rule_id |-> "L003", node |-> unused[j].node, name |-> unused[j].name]]

\* UnusedVariableRule.check
UnusedVariableRule_check(root) ==
    LET functions == find_function_definitions(root)
    IN  Concat([j \in DOMAIN functions |-> UnusedVariable_function(root, functions[j])])

-----------------------------------------------------------------------------
(* UseAfterFreeRule (C005) *)

\* _find_free_calls_in_function: the call expressions whose first child
\* reads `free`.
_find_free_calls_in_function(root, func_node) ==
    SelectSeq(find_nodes_by_type(root, func_node, "call_expression"),
        LAMBDA c : /\ Len(NodeAt(root, c).children) > 0
                   /\ get_node_text(root, Append(c, 1)) = << "f", "r", "e", "e" >>)

\* _get_freed_variable: the text of the first identifier among the
\* arguments, as << name >>; << >> for None.
_get_freed_variable(root, call_node) ==
    IF Len(NodeAt(root, call_node).children) >= 2
    THEN LET args_node == NodeAt(root, call_node).children[2]
             ids == {c \in DOMAIN args_node.children :
                        args_node.children[c].type = "identifier"}
         IN  IF args_node.type = "argument_list" /\ ids # {}
             THEN << args_node.children[CHOOSE c \in ids : \A b \in ids : c <= b].text >>
             ELSE << >>
    ELSE << >>

\* ASTRule.find_variable_references: the identifiers that read the name.
find_variable_references(root, root_node, variable_name) ==
    SelectSeq(find_nodes_by_type(root, root_node, "identifier"),
        LAMBDA i : get_node_text(root, i) = variable_name)

\* _is_null_assignment: the nearest assignment expression above the
\* reference, if there is one, holds `NULL` or `= 0` in its text.
_is_null_assignment(root, var_ref) ==
    LET above == {n \in 0..(Len(var_ref) - 1) :
                     NodeAt(root, SubSeq(var_ref, 1, n)).type = "assignment_expression"}
    IN  /\ above # {}
        /\ LET assign_text ==
                   get_node_text(root,
                       SubSeq(var_ref, 1, CHOOSE n \in above : \A a \in above : a <= n))
           IN  \/ In(<< "N", "U", "L", "L" >>, assign_text)
               \/ In(<< "=", " ", "0" >>, assign_text)

\* _has_usage_after_free: a reference on a line after the free call's line
\* that is not a null assignment.
_has_usage_after_free(root, func_node, free_call, var_name) ==
    LET free_line == NodeAt(root, free_call).row + 1
        var_references == find_variable_references(root, func_node, var_name)
    IN  \E j \in DOMAIN var_references :
            /\ NodeAt(root, var_references[j]).row + 1 > free_line
            /\ ~_is_null_assignment(root, var_references[j])

\* The issues of one function, by the free call each is created at.
UseAfterFree_function(root, func_node) ==
    LET free_calls == _find_free_calls_in_function(root, func_node)
        flagged == SelectSeq(free_calls,
                      LAMBDA c :
                         /\ _get_freed_variable(root, c) # << >>
                         /\ _has_usage_after_free(root, func_node, c,
                                                  _get_freed_variable(root, c)[1]))
    IN  [j \in DOMAIN flagged |-> [rule_id |-> "C005", node |-> flagged[j]]]

\* UseAfterFreeRule.check
UseAfterFreeRule_check(root) ==
    LET functions == find_function_definitions(root)
    IN  Concat([j \in DOMAIN functions |-> UseAfterFree_function(root, functions[j])])

-----------------------------------------------------------------------------
(* BaseRule.create_issue: the code snippet around the reported line *)

Max(a, b) == IF a >= b THEN a ELSE b
Min(a, b) == IF a <= b THEN a ELSE b

\* Mutant of code_snippet: three lines of leading context.
code_snippet_three_before(lines, line_num) ==
    LET start_line == Max(0, line_num - 4)
        end_line == Min(Len(lines), line_num + 2)
    IN  [j \in 1..(end_line - start_line) |->
            LET i == start_line + j - 1
            IN  [prefix |-> IF i = line_num - 1 THEN ">>> " ELSE "    ",
                 number |-> i + 1, line |-> lines[i + 1]]]

\* The snippet lines of create_issue, for i in range(start_line, end_line):
\* the prefix, the number i + 1 and lines[i] (lines counted from 0 there).
code_snippet(lines, line_num) ==
    LET start_line == Max(0, line_num - 3)
        end_line == Min(Len(lines), line_num + 2)
    IN  [j \in 1..(end_line - start_line) |->
            LET i == start_line + j - 1
            IN  [prefix |-> IF i = line_num - 1 THEN ">>> " ELSE "    ",
                 number |-> i + 1, line |-> lines[i + 1]]]

-----------------------------------------------------------------------------
(* BaseRule._format_reference *)

\* sep.join(parts)
RECURSIVE str_join(_, _)
str_join(sep, parts) ==
    IF parts = << >> THEN ""
    ELSE IF Len(parts) = 1 THEN parts[1]
    ELSE parts[1] \o sep \o str_join(sep, Tail(parts))

\* _format_reference over the rule's RuleReference.
_format_reference(reference) ==
    IF reference.book = "" THEN ""
    ELSE str_join(" - ",
            << reference.book >>
            \o (IF reference.chapter # "" THEN << reference.chapter >> ELSE << >>)
            \o (IF reference.page # "" THEN << reference.page >> ELSE << >>))

-----------------------------------------------------------------------------
(* main.run_cli_mode: the engine's configuration from the arguments *)

\* The result of a call that did nothing.
Unchanged(os) == [objs |-> os, error |-> NoError]

\* "if args.config: if config_path.exists(): rule_engine.import_config(...)"
cli_load_config(os, rs, args) ==
    IF args.config.given /\ args.config.exists
    THEN import_config(os, rs, args.config.file)
    ELSE Unchanged(os)

\* Mutant of run_cli_mode_configure: the template is applied first and the
\* configuration file imported over it.
run_cli_mode_template_first(os, rs, templates, args) ==
    LET applied == apply_template(os, rs, templates, args.template)
        loaded == cli_load_config(applied.objs, rs, args)
    IN  IF applied.error # NoError
        THEN [imported |-> os, objs |-> applied.objs, error |-> applied.error]
        ELSE [imported |-> loaded.objs, objs |-> loaded.objs, error |-> loaded.error]

\* The configuration file is loaded, then the template applied; an exception
\* of either leaves run_cli_mode for its handler, which exits.  imported is
\* the registry as import_config left it.
run_cli_mode_configure(os, rs, templates, args) ==
    LET loaded == cli_load_config(os, rs, args)
        applied == apply_template(loaded.objs, rs, templates, args.template)
    IN  IF loaded.error # NoError
        THEN [imported |-> loaded.objs, objs |-> loaded.objs, error |-> loaded.error]
        ELSE [imported |-> loaded.objs, objs |-> applied.objs, error |-> applied.error]

-----------------------------------------------------------------------------
(* The engine's calls as actions *)

Registered == {rules[k] : k \in DOMAIN rules}

Call(op, arg, error) ==
    [op |-> op, arg |-> arg, error |-> error]

Called ==
    /\ calls < MaxCalls
    /\ calls' = calls + 1

ApiCall ==
    /\ Called
    /\ UNCHANGED <<export_vars, result, gui, source_file, probe>>

TemplateArgs == DOMAIN BuiltinTemplates(InitialObjs, _load_all_rules)
                    \cup {FileTemplateKey, "nosuch"}

ApplyTemplate(name) ==
    LET r == apply_template(objs, rules, rule_templates, name)
    IN  /\ ApiCall
        /\ objs' = r.objs
        /\ last' = Call("apply_template", name, r.error)
        /\ UNCHANGED <<rules, rule_templates>>

AddRule(rule) ==
    /\ ApiCall
    /\ rules' = add_rule(objs, rules, rule)
    /\ last' = Call("add_rule", [inst |-> rule, obj |-> objs[rule]], NoError)
    /\ UNCHANGED <<objs, rule_templates>>

RemovableIds == {"C001", "L005", "S002", "Z999"}

RemoveRule(rule_id) ==
    /\ ApiCall
    /\ rules' = remove_rule(objs, rules, rule_id)
    /\ last' = Call("remove_rule", rule_id, NoError)
    /\ UNCHANGED <<objs, rule_templates>>

ImportConfig(config) ==
    LET r == import_config(objs, rules, config)
    IN  /\ ApiCall
        /\ objs' = r.objs
        /\ last' = Call("import_config", config, r.error)
        /\ UNCHANGED <<rules, rule_templates>>

NoFile == [written |-> FALSE]
NoEngine == [constructed |-> FALSE]

NoResult == [returned |-> FALSE]

NoFileInfo == [stage |-> "none"]

NoProbe == [stage |-> "none"]

\* MainWindow.__init__: no project scanned, the check button disabled.
MainWindow ==
    [check_button |-> "disabled", parsed_files |-> << >>, project_type |-> "",
     issues |-> << >>, window |-> FALSE, threads |-> << >>, after |-> << >>]

ExportIdle ==
    /\ exported = NoFile
    /\ fresh = NoEngine
    /\ result = NoResult
    /\ gui = MainWindow
    /\ probe = NoProbe

\* RuleEngine.__init__
EngineInit ==
    /\ objs = InitialObjs
    /\ rules = _load_all_rules
    /\ \E files \in TemplatesDirs :
          rule_templates = _load_templates(InitialObjs, _load_all_rules, files)

Init ==
    /\ EngineInit
    /\ last = [op |-> "init", arg |-> "", error |-> NoError]
    /\ calls = 0
    /\ ExportIdle
    /\ source_file = NoFileInfo

\* RuleEngine.__init__ with an empty templates directory.
InitBuiltin ==
    /\ Init
    /\ rule_templates = _load_templates(InitialObjs, _load_all_rules, << >>)

Next ==
    \/ \E name \in TemplateArgs : ApplyTemplate(name)
    \/ \E rule \in CallerInsts : AddRule(rule)
    \/ \E rule_id \in RemovableIds : RemoveRule(rule_id)
    \/ \E config \in ConfigFiles : ImportConfig(config)

Spec == Init /\ [][Next]_vars

-----------------------------------------------------------------------------
(* Properties of the engine's calls *)


\* C1: after apply_template(name) has returned for a name present in
\* rule_templates, every registered rule is enabled exactly when its id is in
\* that template's enabled_rules, whatever the template holds and whatever the
\* registry held before.
C1_TemplateSetsMembership ==
    (last.op = "apply_template" /\ last.error = NoError
        /\ last.arg \in DOMAIN rule_templates)
    => \A i \in Registered :
          objs[i].enabled = InSeq(objs[i].rule_id, rule_templates[last.arg].enabled_rules)

\* A template with rule_settings was applied, after earlier calls, and
\* returned: a rule it lists is enabled with the severity it overrides, a rule
\* it does not list is disabled.
C1_Witness ==
    /\ last.op = "apply_template" /\ last.error = NoError /\ calls = MaxCalls
    /\ last.arg \in DOMAIN rule_templates
    /\ DOMAIN rule_templates[last.arg].rule_settings # {}
    /\ \E i \in Registered :
          /\ objs[i].enabled
          /\ objs[i].rule_id \in DOMAIN rule_templates[last.arg].rule_settings
          /\ objs[i].severity # InitialObjs[i].severity
    /\ \E i \in Registered : ~objs[i].enabled

\* C6: import_config of a file in which some rule's severity string is not a
\* Severity value does not raise and does not stop: that rule keeps its
\* previous severity, and every rule still gets its enabled flag, its (valid)
\* severity and its config from the file.
WellFormedConfig(config) ==
    /\ config.parses
    /\ \A id \in DOMAIN config.rule_settings : config.rule_settings[id].is_dict

ValidSeverityValues == {SeverityValue(m) : m \in SeverityMembers}

C6_Step ==
    (last'.op = "import_config" /\ calls' = calls + 1 /\ WellFormedConfig(last'.arg))
    => /\ last'.error = NoError
       /\ rules' = rules
       /\ \A i \in Registered :
            LET id == objs[i].rule_id
                rs == last'.arg.rule_settings
            IN  /\ objs'[i].enabled = InSeq(id, last'.arg.enabled_rules)
                /\ objs'[i].severity =
                      IF id \in DOMAIN rs /\ rs[id].has_severity
                            /\ rs[id].severity \in ValidSeverityValues
                      THEN CHOOSE m \in SeverityMembers : SeverityValue(m) = rs[id].severity
                      ELSE objs[i].severity
                /\ objs'[i].config =
                      IF id \in DOMAIN rs /\ rs[id].has_config
                      THEN {rs[id].config[j] : j \in DOMAIN rs[id].config}
                      ELSE objs[i].config

C6_InvalidSeveritySkipped == [][C6_Step]_vars

\* An import whose file gives a registered rule an invalid severity has
\* returned, and a rule after it in the list took its severity from the file.
C6_Witness ==
    /\ last.op = "import_config" /\ last.error = NoError
    /\ WellFormedConfig(last.arg)
    /\ \E i, j \in DOMAIN rules :
          LET rs == last.arg.rule_settings
              a == objs[rules[i]]
              b == objs[rules[j]]
          IN  /\ i < j
              /\ a.rule_id \in DOMAIN rs /\ rs[a.rule_id].has_severity
              /\ rs[a.rule_id].severity \notin ValidSeverityValues
              /\ a.config = {<<"window", 5>>}
              /\ b.rule_id \in DOMAIN rs /\ rs[b.rule_id].has_severity
              /\ rs[b.rule_id].severity = SeverityValue(b.severity)
              /\ b.severity # InitialObjs[rules[j]].severity

\* C7: no two rules of the registry share a rule_id; after add_rule the
\* registry holds exactly one rule with the added id, it is the instance that
\* was passed, and its enabled flag, severity and config are its own.
C7_UniqueIds ==
    /\ \A j, k \in DOMAIN rules :
          j # k => objs[rules[j]].rule_id # objs[rules[k]].rule_id
    /\ last.op = "add_rule" =>
          /\ Cardinality({k \in DOMAIN rules :
                             objs[rules[k]].rule_id = last.arg.obj.rule_id}) = 1
          /\ rules[Len(rules)] = last.arg.inst
          /\ objs[last.arg.inst] = last.arg.obj

\* add_rule was called with a rule whose id was registered already, after the
\* registered one had been changed by a template or an import.
C7_Witness ==
    /\ last.op = "add_rule" /\ last.arg.inst = SecondArrayBoundsInst
    /\ calls >= 2
    /\ ~InSeq(1, rules)
    /\ objs[1] # InitialObjs[1]
    /\ objs[SecondArrayBoundsInst] = SecondArrayBoundsRule

\* C10: apply_template with a name that is not in rule_templates changes
\* nothing (no rule's enabled flag, severity or config, not the rule list, not
\* the templates) and raises nothing.
C10_Step ==
    (last'.op = "apply_template" /\ calls' = calls + 1
        /\ last'.arg \notin DOMAIN rule_templates)
    => /\ objs' = objs
       /\ rules' = rules
       /\ rule_templates' = rule_templates
       /\ last'.error = NoError

C10_UnknownTemplateNoOp == [][C10_Step]_vars

\* An unknown template was applied to a registry that earlier calls changed.
C10_Witness ==
    /\ last.op = "apply_template" /\ last.arg \notin DOMAIN rule_templates
    /\ last.error = NoError
    /\ \E i \in Registered : objs[i].enabled
    /\ \E i \in Registered : objs[i].severity # InitialObjs[i].severity

-----------------------------------------------------------------------------
(* Export and import: a registry is configured through the rule configuration
   window and through imports, exports its configuration, and a freshly
   constructed registry with the same rule set imports the file. *)

\* RuleConfigWindow.on_rule_enabled_change: selected_rule.enabled = the checkbox.
on_rule_enabled_change(os, selected_rule, value) ==
    [os EXCEPT ![selected_rule].enabled = value]

\* RuleConfigWindow.on_severity_change: selected_rule.severity = Severity(value).
on_severity_change(os, selected_rule, value) ==
    [os EXCEPT ![selected_rule].severity = Severity(value)]

OnRuleEnabledChange(selected_rule, value) ==
    /\ ApiCall
    /\ objs' = on_rule_enabled_change(objs, selected_rule, value)
    /\ last' = Call("on_rule_enabled_change", selected_rule, NoError)
    /\ UNCHANGED <<rules, rule_templates>>

OnSeverityChange(selected_rule, value) ==
    /\ ApiCall
    /\ objs' = on_severity_change(objs, selected_rule, value)
    /\ last' = Call("on_severity_change", selected_rule, NoError)
    /\ UNCHANGED <<rules, rule_templates>>

ExportConfig ==
    /\ exported' = [written |-> TRUE, file |-> export_config(objs, rules),
                    from_objs |-> objs, from_rules |-> rules]
    /\ fresh' = NoEngine
    /\ last' = Call("export_config", "", NoError)
    /\ UNCHANGED <<objs, rules, rule_templates, calls, result, gui, source_file, probe>>

\* RuleEngine() followed by the add_rule / remove_rule calls that give it the
\* rule set of the exporting registry: every rule object is as its
\* constructor (or the caller, for the caller's object) left it.
FreshImport ==
    /\ exported.written
    /\ LET r == import_config(InitialObjs, exported.from_rules, exported.file)
       IN  fresh' = [constructed |-> TRUE, objs |-> r.objs,
                     rules |-> exported.from_rules, error |-> r.error]
    /\ last' = Call("import_config", exported.file, NoError)
    /\ UNCHANGED <<objs, rules, rule_templates, calls, exported, result, gui, source_file, probe>>

\* The rules the user selects in the window's list.
SelectedRules == {1, 7, FunctionLengthInst}

\* The registry is configured, then exported, then imported elsewhere.
Configuring == ~exported.written

NextRoundTrip ==
    \/ \E i \in Registered \cap SelectedRules, value \in BOOLEAN :
          Configuring /\ OnRuleEnabledChange(i, value)
    \/ \E i \in Registered \cap SelectedRules, m \in SeverityMembers :
          Configuring /\ OnSeverityChange(i, SeverityValue(m))
    \/ \E config \in ConfigFiles : Configuring /\ ImportConfig(config)
    \/ Configuring /\ AddRule(FunctionLengthInst)
    \/ Configuring /\ ExportConfig
    \/ FreshImport

SpecRoundTrip == Init /\ [][NextRoundTrip]_vars

\* C2: export_config followed by import_config of the exported file on a
\* freshly constructed registry with the same rule set gives every rule the
\* enabled flag, severity and config it had in the exporting registry.
C2_RoundTrip ==
    fresh.constructed =>
        /\ fresh.error = NoError
        /\ \A k \in DOMAIN fresh.rules :
              LET i == fresh.rules[k]
              IN  /\ fresh.objs[i].enabled = exported.from_objs[i].enabled
                  /\ fresh.objs[i].severity = exported.from_objs[i].severity
                  /\ fresh.objs[i].config = exported.from_objs[i].config

\* The file of a registry with a disabled rule, a changed severity and a
\* changed config was imported into the fresh registry.
C2_Witness ==
    /\ fresh.constructed
    /\ \E i, j, k \in DOMAIN fresh.rules :
          /\ ~exported.from_objs[fresh.rules[i]].enabled
          /\ exported.from_objs[fresh.rules[j]].severity # InitialObjs[fresh.rules[j]].severity
          /\ exported.from_objs[fresh.rules[k]].config # InitialObjs[fresh.rules[k]].config

-----------------------------------------------------------------------------
(* Checking: the registry is configured through templates, the rule
   configuration window and add_rule, and file lists are checked. *)

CheckFiles(parsed_files) ==
    /\ Called
    /\ LET r == check_files(objs, rules, parsed_files)
       IN  /\ objs' = r.objs
           /\ result' = [returned |-> TRUE, issues |-> r.issues,
                         invoked |-> r.invoked,
                         again |-> last.op = "check_files" /\ last.arg = parsed_files]
           /\ last' = Call("check_files", parsed_files, r.error)
    /\ UNCHANGED <<rules, rule_templates, export_vars, gui, source_file, probe>>

NextCheck ==
    \/ \E parsed_files \in FileLists : CheckFiles(parsed_files)
    \/ \E name \in TemplateArgs : ApplyTemplate(name)
    \/ \E i \in Registered \cap SelectedRules, value \in BOOLEAN :
          OnRuleEnabledChange(i, value)
    \/ \E i \in Registered \cap SelectedRules, m \in SeverityMembers :
          OnSeverityChange(i, SeverityValue(m))
    \/ \E rule \in CallerInsts : AddRule(rule)

SpecCheck == InitBuiltin /\ [][NextCheck]_vars

CheckReturns ==
    /\ last'.op = "check_files"
    /\ calls' = calls + 1

\* The file with every raising check replaced by one that returns [].
Quiet(file_info) ==
    [file_info EXCEPT
        !.raises = {},
        !.findings = [id \in AllRuleIds |->
                        IF id \in file_info.raises
                        THEN << >> ELSE file_info.findings[id]]]

QuietList(parsed_files) == [f \in DOMAIN parsed_files |-> Quiet(parsed_files[f])]

C3_Step ==
    CheckReturns =>
        LET quiet == check_files(objs, rules, QuietList(last'.arg))
        IN  /\ last'.error = NoError
            /\ result'.issues = quiet.issues
            /\ result'.invoked = quiet.invoked

\* C3: when a rule's check raises on a file, check_files does not raise, and
\* it returns the issues, and makes the checks, it would if every raising
\* check had returned an empty list.
C3_RaisingCheckIsolated == [][C3_Step]_vars

\* A check raised, and a later file still contributed issues.
C3_Witness ==
    /\ last.op = "check_files"
    /\ \E j, k \in DOMAIN result.invoked :
          /\ objs[result.invoked[j].rule].rule_id
                \in last.arg[result.invoked[j].file].raises
          /\ result.invoked[j].file < result.invoked[k].file
          /\ \E n \in DOMAIN result.issues :
                /\ result.issues[n].file_path = last.arg[result.invoked[k].file].path
                /\ result.issues[n].rule_id = objs[result.invoked[k].rule].rule_id

\* What the check of rule object o returns for the file: nothing when it raises.
PairIssues(o, file_info) ==
    IF o.enabled /\ is_applicable(file_info) /\ o.rule_id \notin file_info.raises
    THEN [j \in DOMAIN file_info.findings[o.rule_id] |->
            Issue(o, file_info, file_info.findings[o.rule_id][j])]
    ELSE << >>

C4_Step ==
    CheckReturns =>
        /\ result'.issues =
              Concat([f \in DOMAIN last'.arg |->
                  Concat([k \in DOMAIN rules |->
                      PairIssues(objs[rules[k]], last'.arg[f])])])
        /\ \A j \in DOMAIN result'.invoked :
              /\ objs[result'.invoked[j].rule].enabled
              /\ is_applicable(last'.arg[result'.invoked[j].file])

\* C4: check_files invokes check only for enabled rules on applicable files,
\* and returns the per-(file, rule) issue lists concatenated in file order,
\* then registry order, each list in the rule's own order.
C4_EnabledApplicableInOrder == [][C4_Step]_vars

\* A list with an inapplicable file was checked while a rule with findings
\* was disabled, and issues of two files came back.
C4_Witness ==
    /\ last.op = "check_files"
    /\ \E f \in DOMAIN last.arg : ~is_applicable(last.arg[f])
    /\ \E k \in DOMAIN rules, f \in DOMAIN last.arg :
          /\ ~objs[rules[k]].enabled
          /\ is_applicable(last.arg[f])
          /\ last.arg[f].findings[objs[rules[k]].rule_id] # << >>
    /\ \E m, n \in DOMAIN result.issues :
          /\ result.issues[m].file_path # result.issues[n].file_path
          /\ result.issues[m].rule_id # result.issues[n].rule_id

C8_Step ==
    (/\ CheckReturns
     /\ last.op = "check_files"
     /\ last'.arg = last.arg)
        => result'.issues = result.issues

-----------------------------------------------------------------------------
(* The main window: handlers run one at a time on the Tk main loop; a check
   runs in a background thread, one (file, rule) pair per step, and hands its
   completion to the main loop through root.after. *)

\* The menu entries of the template drop-down, by the key they map to
\* (the display names are Chinese; the keys stand in for them here).
template_mapping == {"beginner", "c_traps", "embedded", "misra_c", "enterprise"}

\* MainWindow.get_recommended_template, composed with template_mapping.
get_recommended_template(project_type) ==
    CASE project_type \in {"ESP32", "STM32_HAL", "STM32_LL"} -> "embedded"
      [] project_type = "Linux_GNU" -> "c_traps"
      [] OTHER -> "beginner"

ProjectTypes == {"ESP32", "Generic_C"}
Projects == {<<MainC>>, <<UtilH, MainC>>}

\* scan_project and its scan thread: the project is detected and parsed, and
\* on_scan_complete is handed to the main loop.
ScanProject(project_type, parsed_files) ==
    /\ Called
    /\ gui' = [gui EXCEPT !.project_type = project_type,
                          !.parsed_files = parsed_files,
                          !.after = Append(@, "on_scan_complete")]
    /\ last' = Call("scan_project", project_type, NoError)
    /\ UNCHANGED <<engine_vars, export_vars, result, source_file, probe>>

\* on_scan_complete: the recommended template is applied and the check
\* button enabled.
OnScanComplete ==
    /\ gui.after # << >>
    /\ Head(gui.after) = "on_scan_complete"
    /\ LET key == get_recommended_template(gui.project_type)
           r == apply_template(objs, rules, rule_templates, key)
       IN  /\ objs' = r.objs
           /\ last' = Call("apply_template", key, r.error)
    /\ gui' = [gui EXCEPT !.after = Tail(@), !.check_button = "normal"]
    /\ UNCHANGED <<rules, rule_templates, calls, export_vars, result, source_file, probe>>

\* The drop-down of the main window; nothing disables it.
OnTemplateChange(key) == ApplyTemplate(key)

\* show_rule_config: the window is transient, not modal.
ShowRuleConfig ==
    /\ ~gui.window
    /\ gui' = [gui EXCEPT !.window = TRUE]
    /\ UNCHANGED <<engine_vars, last, calls, export_vars, result, source_file, probe>>

\* Mutant of loop_rule: the pass takes its rule from the registry as it is
\* at the time of the pass.
loop_rule_live(th, os, rs) ==
    IF th.k <= Len(get_enabled_rules(os, rs))
    THEN get_enabled_rules(os, rs)[th.k]
    ELSE th.enabled_rules[th.k]

\* `for rule in enabled_rules`: the rule of the pass is taken from the list
\* that check_files built when it was entered.
loop_rule(th, os, rs) == th.enabled_rules[th.k]

\* start_check: with parsed files and an enabled rule, the button is
\* disabled and the check thread started.
StartCheck ==
    /\ gui.check_button = "normal"
    /\ gui.parsed_files # << >>
    /\ get_enabled_rules(objs, rules) # << >>
    /\ Called
    /\ gui' = [gui EXCEPT
                 !.check_button = "disabled",
                 !.threads = Append(@, [pc |-> "check_files",
                                        parsed_files |-> gui.parsed_files,
                                        start_objs |-> objs,
                                        enabled_rules |-> << >>,
                                        enter_objs |-> objs, enter_rules |-> rules,
                                        ran |-> << >>,
                                        f |-> 1, k |-> 1, all_issues |-> << >>])]
    /\ last' = Call("start_check", "", NoError)
    /\ UNCHANGED <<engine_vars, export_vars, result, source_file, probe>>

RemoveAt(seq, t) == [j \in 1..(Len(seq) - 1) |-> IF j < t THEN seq[j] ELSE seq[j + 1]]

\* check_files returned in thread t: self.issues is assigned and
\* on_check_complete handed to the main loop.
ThreadReturn(t, all_issues) ==
    gui' = [gui EXCEPT !.issues = all_issues,
                       !.threads = RemoveAt(@, t),
                       !.after = Append(@, "on_check_complete")]

\* The thread enters check_files: enabled_rules = self.get_enabled_rules().
ThreadEnter(t) ==
    /\ gui.threads[t].pc = "check_files"
    /\ LET enabled_rules == get_enabled_rules(objs, rules)
       IN  IF enabled_rules = << >>
           THEN ThreadReturn(t, << >>)
           ELSE gui' = [gui EXCEPT !.threads[t].pc = "loop",
                                   !.threads[t].enabled_rules = enabled_rules,
                                   !.threads[t].enter_objs = objs,
                                   !.threads[t].enter_rules = rules]
    /\ UNCHANGED <<engine_vars, last, calls, export_vars, result, source_file, probe>>

\* One pass of the inner loop of check_files in thread t; ran records the
\* file and the rule of every pass, and whether the rule was registered and
\* enabled when the pass was made.
ThreadCheck(t) ==
    LET th == gui.threads[t]
    IN  /\ th.pc = "loop"
        /\ LET rule == loop_rule(th, objs, rules)
               r == check_rule(objs, rule, th.parsed_files[th.f])
               all_issues == th.all_issues \o r.issues
               ran == Append(th.ran, [f |-> th.f, rule |-> rule,
                                      registered |-> InSeq(rule, rules),
                                      enabled |-> objs[rule].enabled])
           IN  /\ objs' = r.objs
               /\ IF th.k < Len(th.enabled_rules)
                  THEN gui' = [gui EXCEPT !.threads[t].k = th.k + 1,
                                          !.threads[t].ran = ran,
                                          !.threads[t].all_issues = all_issues]
                  ELSE IF th.f < Len(th.parsed_files)
                  THEN gui' = [gui EXCEPT !.threads[t].f = th.f + 1,
                                          !.threads[t].k = 1,
                                          !.threads[t].ran = ran,
                                          !.threads[t].all_issues = all_issues]
                  ELSE ThreadReturn(t, all_issues)
        /\ UNCHANGED <<rules, rule_templates, last, calls, export_vars, result, source_file, probe>>

\* on_check_complete: the check button is enabled again.
OnCheckComplete ==
    /\ gui.after # << >>
    /\ Head(gui.after) = "on_check_complete"
    /\ gui' = [gui EXCEPT !.after = Tail(@), !.check_button = "normal"]
    /\ UNCHANGED <<engine_vars, last, calls, export_vars, result, source_file, probe>>

ImportableConfigs == {c \in ConfigFiles : c.parses /\ Len(c.enabled_rules) > 0}

NextGui ==
    \/ \E project_type \in ProjectTypes, parsed_files \in Projects :
          ScanProject(project_type, parsed_files)
    \/ OnScanComplete
    \/ \E key \in template_mapping : OnTemplateChange(key)
    \/ ShowRuleConfig
    \/ \E i \in Registered \cap SelectedRules, value \in BOOLEAN :
          gui.window /\ OnRuleEnabledChange(i, value)
    \/ \E i \in Registered \cap SelectedRules, m \in SeverityMembers :
          gui.window /\ OnSeverityChange(i, SeverityValue(m))
    \/ \E config \in ImportableConfigs : gui.window /\ ImportConfig(config)
    \/ StartCheck
    \/ \E t \in DOMAIN gui.threads : ThreadEnter(t)
    \/ \E t \in DOMAIN gui.threads : ThreadCheck(t)
    \/ OnCheckComplete

SpecGui == InitBuiltin /\ [][NextGui]_vars

\* C5: while a check thread is running, every rule's enabled flag, severity
\* and config are what they were when the thread was started.
C5_ConfigFrozenDuringCheck ==
    \A t \in DOMAIN gui.threads :
        \A k \in DOMAIN rules :
            objs[rules[k]] = gui.threads[t].start_objs[rules[k]]

-----------------------------------------------------------------------------
(* One file through the parser and one rule: the file is read, parse_file
   builds its file_info, and a rule reports a node of its tree, or the
   comment rule reports lines. *)

InitLines ==
    /\ objs = InitialObjs
    /\ rules = _load_all_rules
    /\ rule_templates = _load_templates(InitialObjs, _load_all_rules, << >>)
    /\ last = [op |-> "init", arg |-> "", error |-> NoError]
    /\ calls = 0
    /\ ExportIdle
    /\ \E content \in Contents :
          source_file = [stage |-> "read", path |-> "main.c", suffix |-> ".c",
                         content |-> content]

LinesFrame == UNCHANGED <<engine_vars, last, calls, export_vars, result, gui, probe>>

\* parse_file: None for empty content, else the file_info dict.
ParseFile ==
    /\ source_file.stage = "read"
    /\ source_file' =
          IF source_file.content = << >>
          THEN NoFileInfo
          ELSE [stage |-> "parsed", path |-> source_file.path,
                suffix |-> source_file.suffix, content |-> source_file.content,
                lines |-> split(source_file.content),
                line_count |-> line_count(source_file.content)]
    /\ LinesFrame

\* A rule of the registry reports the node of the file's tree that starts
\* at start_byte, through create_issue.
NodeRuleCheck(rule, start_byte) ==
    /\ source_file.stage = "parsed"
    /\ source_file' = [stage |-> "checked", path |-> source_file.path,
                       suffix |-> source_file.suffix, content |-> source_file.content,
                       lines |-> source_file.lines,
                       line_count |-> source_file.line_count,
                       issues |-> << create_issue(objs[rule], source_file, start_byte) >>]
    /\ LinesFrame

CommentRuleCheck ==
    /\ source_file.stage = "parsed"
    /\ source_file' = [stage |-> "checked", path |-> source_file.path,
                       suffix |-> source_file.suffix, content |-> source_file.content,
                       lines |-> source_file.lines,
                       line_count |-> source_file.line_count,
                       issues |-> CommentQualityRule_check(source_file)]
    /\ LinesFrame

NextLines ==
    \/ ParseFile
    \/ \E start_byte \in 0..MaxLen :
          /\ source_file.stage = "parsed"
          /\ start_byte <= Len(source_file.content)
          /\ NodeRuleCheck(1, start_byte)
    \/ CommentRuleCheck

SpecLines == InitLines /\ [][NextLines]_vars

\* C9: every Issue a rule returns for a file has a line number from 1 to
\* the file's line_count, whether built from a node or from a line index.
C9_LineNumberInFile ==
    source_file.stage = "checked" =>
        \A j \in DOMAIN source_file.issues :
            /\ source_file.issues[j].line_number >= 1
            /\ source_file.issues[j].line_number <= source_file.line_count

\* The comment rule reported the last line of a file of several lines.
C9_Witness ==
    /\ source_file.stage = "checked"
    /\ source_file.line_count > 1
    /\ \E j \in DOMAIN source_file.issues :
          /\ source_file.issues[j].rule_id = "S004"
          /\ source_file.issues[j].line_number = source_file.line_count

-----------------------------------------------------------------------------
(* Severities across template applications *)

\* The template has a severity setting for the rule id.
HasSeveritySetting(templates, template_name, rule_id) ==
    /\ template_name \in DOMAIN templates
    /\ rule_id \in DOMAIN templates[template_name].rule_settings
    /\ templates[template_name].rule_settings[rule_id].is_dict
    /\ templates[template_name].rule_settings[rule_id].has_severity

C11_Step ==
    (last'.op = "apply_template" /\ calls' = calls + 1) =>
        \A k \in DOMAIN rules :
            ~HasSeveritySetting(rule_templates, last'.arg, objs[rules[k]].rule_id)
                => objs'[rules[k]].severity = objs[rules[k]].severity

\* C11: apply_template leaves the severity of every registered rule for
\* which the template has no severity setting as it was before the call.
C11_SeverityPersists == [][C11_Step]_vars

\* A template was applied that set one rule's severity while another rule,
\* not in its settings, holds a severity an earlier import gave it.
C11_Witness ==
    /\ last.op = "apply_template"
    /\ last.arg \in DOMAIN rule_templates
    /\ \E j, k \in DOMAIN rules :
          /\ HasSeveritySetting(rule_templates, last.arg, objs[rules[j]].rule_id)
          /\ ~HasSeveritySetting(rule_templates, last.arg, objs[rules[k]].rule_id)
          /\ objs[rules[k]].severity # InitialObjs[rules[k]].severity

-----------------------------------------------------------------------------
(* Custom templates: templates are created from names and id lists, applied,
   and rules are added and removed in between. *)

TemplateNames ==
    { <<"M", "y", " ", "T">>, <<"B", "e", "g", "i", "n", "n", "e", "r">>,
      <<"a", " ", " ", "b">>, <<"t", "e", "a", "m">> }

EnabledRuleIdLists ==
    { <<"L005", "Z999", "C001">>, <<"S002", "C002", "S002">>, << >> }

CreateCustomTemplate(name, enabled_rule_ids) ==
    /\ ApiCall
    /\ rule_templates' =
          create_custom_template(objs, rules, rule_templates, name, enabled_rule_ids)
    /\ last' = Call("create_custom_template",
                    [name |-> name, enabled_rule_ids |-> enabled_rule_ids], NoError)
    /\ UNCHANGED <<objs, rules>>

CustomKeys == {"my_t", "beginner", "a__b", "team"}

NextTemplates ==
    \/ \E name \in TemplateNames, enabled_rule_ids \in EnabledRuleIdLists :
          CreateCustomTemplate(name, enabled_rule_ids)
    \/ \E name \in CustomKeys \cup {"enterprise"} : ApplyTemplate(name)
    \/ AddRule(FunctionLengthInst)
    \/ \E rule_id \in {"C001", "S002"} : RemoveRule(rule_id)

SpecTemplates == Init /\ [][NextTemplates]_vars

\* The ids of the list that are ids of registered rules, in the list's order.
RegisteredSubsequence(ids) ==
    SelectSeq(ids, LAMBDA id : \E k \in DOMAIN rules : objs[rules[k]].rule_id = id)

C12_Step ==
    /\ (last'.op = "create_custom_template" /\ calls' = calls + 1) =>
          LET key == template_key(last'.arg.name)
          IN  /\ last'.arg.name = <<"M", "y", " ", "T">> => key = "my_t"
              /\ last'.arg.name = <<"a", " ", " ", "b">> => key = "a__b"
              /\ last'.arg.name = <<"B", "e", "g", "i", "n", "n", "e", "r">>
                    => key = "beginner"
              /\ DOMAIN rule_templates' = DOMAIN rule_templates \cup {key}
              /\ rule_templates'[key].enabled_rules =
                    RegisteredSubsequence(last'.arg.enabled_rule_ids)
              /\ \A n \in DOMAIN rule_templates \ {key} :
                    rule_templates'[n] = rule_templates[n]
    /\ (/\ last'.op = "apply_template" /\ calls' = calls + 1
        /\ last'.arg \in DOMAIN rule_templates
        /\ rule_templates[last'.arg].custom) =>
          /\ last'.error = NoError
          /\ \A k \in DOMAIN rules :
                objs'[rules[k]].enabled =
                    InSeq(objs[rules[k]].rule_id, rule_templates[last'.arg].enabled_rules)

\* C12: create_custom_template stores, under the lower-cased name with
\* underscores for spaces, a template whose enabled_rules are the given ids
\* that are registered, in order; applying a custom key enables exactly the
\* rules it lists.
C12_CustomTemplate == [][C12_Step]_vars

\* A custom template made from a name with capitals and a space and from a
\* list with an unknown id was applied: a listed rule is enabled, another
\* rule is not.
C12_Witness ==
    /\ last.op = "apply_template"
    /\ last.arg = "my_t"
    /\ "my_t" \in DOMAIN rule_templates
    /\ rule_templates["my_t"].enabled_rules = <<"L005", "C001">>
    /\ \E j, k \in DOMAIN rules :
          /\ objs[rules[j]].enabled
          /\ ~objs[rules[k]].enabled

-----------------------------------------------------------------------------
(* validate_rules over rule lists: self.rules is a public list, which
   callers and loaders can fill without add_rule. *)

MaxRules == 3

\* A rule object by the attributes validate_rules reads.
DescribedRules ==
    [rule_id : {"C001", "L001"}, name_cn : {"", "n"},
     description_cn : {"", "d"}, category : {"", "c"}]

RuleLists == UNION {[1..n -> DescribedRules] : n \in 0..MaxRules}

\* The engine and the window as constructed; only the probe is in use.
ProbeIdle ==
    /\ EngineInit
    /\ rule_templates = _load_templates(InitialObjs, _load_all_rules, << >>)
    /\ last = [op |-> "init", arg |-> "", error |-> NoError]
    /\ calls = 0
    /\ exported = NoFile
    /\ fresh = NoEngine
    /\ result = NoResult
    /\ gui = MainWindow
    /\ source_file = NoFileInfo

InitValidate ==
    /\ ProbeIdle
    /\ \E rs \in RuleLists : probe = [stage |-> "called", rules |-> rs]

ProbeFrame ==
    UNCHANGED <<engine_vars, last, calls, export_vars, result, gui, source_file>>

ValidateRules ==
    /\ probe.stage = "called"
    /\ probe' = [stage |-> "returned", rules |-> probe.rules,
                 issues |-> validate_rules(probe.rules)]
    /\ ProbeFrame

NextValidate == ValidateRules

SpecValidate == InitValidate /\ [][NextValidate]_vars

UniqueRuleIds(rs) ==
    \A j, k \in DOMAIN rs : j # k => rs[j].rule_id # rs[k].rule_id

\* C13 as stated: the list is empty exactly when the ids are unique and
\* every rule has a name and a category.
C13_AsStated ==
    probe.stage = "returned" =>
        (probe.issues = << >>
            <=> /\ UniqueRuleIds(probe.rules)
                /\ \A k \in DOMAIN probe.rules :
                      probe.rules[k].name_cn # "" /\ probe.rules[k].category # "")

\* C13: validate_rules returns an empty list exactly when the ids are
\* unique and every rule has a name, a description and a category;
\* otherwise one problem for every rule whose id an earlier rule has, and
\* one for every empty name, description and category.
C13_ValidateRules ==
    probe.stage = "returned" =>
        LET rs == probe.rules
        IN  /\ probe.issues = << >>
                <=> /\ UniqueRuleIds(rs)
                    /\ \A k \in DOMAIN rs :
                          /\ rs[k].name_cn # ""
                          /\ rs[k].description_cn # ""
                          /\ rs[k].category # ""
            /\ Len(probe.issues) =
                  Cardinality({k \in DOMAIN rs :
                                  \E j \in 1..(k - 1) : rs[j].rule_id = rs[k].rule_id})
                  + Cardinality({k \in DOMAIN rs : rs[k].name_cn = ""})
                  + Cardinality({k \in DOMAIN rs : rs[k].description_cn = ""})
                  + Cardinality({k \in DOMAIN rs : rs[k].category = ""})

\* A list with three rules of one id, complete but for one description, was
\* validated.
C13_Witness ==
    /\ probe.stage = "returned"
    /\ Len(probe.rules) = 3
    /\ \A k \in DOMAIN probe.rules :
          /\ probe.rules[k].rule_id = "C001"
          /\ probe.rules[k].name_cn # ""
          /\ probe.rules[k].category # ""
    /\ Cardinality({k \in DOMAIN probe.rules : probe.rules[k].description_cn = ""}) = 1
    /\ Len(probe.issues) = 3

-----------------------------------------------------------------------------
(* The assignment-in-condition rule over if and while statements whose
   condition is any expression of bounded depth. *)

MaxDepth == 3

Atoms == {Identifier("x"), NumberLiteral("5")}

\* The expressions of depth at most d.
RECURSIVE Expressions(_)
Expressions(d) ==
    IF d = 0 THEN Atoms
    ELSE LET E == Expressions(d - 1)
         IN  Atoms
             \cup {AssignmentExpression(Identifier("x"), op, e) :
                      op \in {"=", "+="}, e \in E}
             \cup {BinaryExpression(e, op, a) : e \in E, op \in {"==", "!="}, a \in Atoms}
             \cup {ParenthesizedExpression(e) : e \in E}

\* if (e) {} and while (e) {}
ConditionStatements ==
    {Node(type, << kw, "(" >> \o e.text \o << ")", "{", "}" >>,
          << ParenthesizedExpression(e), CompoundStatement(<< >>) >>) :
        e \in Expressions(MaxDepth),
        type \in {"if_statement", "while_statement"},
        kw \in {"if", "while"}}

InitAssignment ==
    /\ ProbeIdle
    /\ \E root \in ConditionStatements :
          /\ (root.type = "if_statement") = (root.text[1] = "if")
          /\ probe = [stage |-> "called", root |-> root]

CheckAssignmentInCondition ==
    /\ probe.stage = "called"
    /\ probe' = [stage |-> "returned", root |-> probe.root,
                 issues |-> AssignmentInConditionRule_check(probe.root)]
    /\ ProbeFrame

NextAssignment == CheckAssignmentInCondition

SpecAssignment == InitAssignment /\ [][NextAssignment]_vars

\* The plain assignments of the tree, by path.
PlainAssignments(root) ==
    {a \in {find_nodes_by_type(root, << >>, "assignment_expression")[j] :
              j \in DOMAIN find_nodes_by_type(root, << >>, "assignment_expression")} :
        \E t \in DOMAIN NodeAt(root, a).text :
            /\ NodeAt(root, a).text[t] = "="
            /\ t = Len(NodeAt(root, a).children[1].text) + 1}

\* C14: one issue, at the assignment, when a plain assignment is the
\* condition; none for a condition without assignment; none when every
\* plain assignment of the condition has its own parentheses around it.
C14_AssignmentInCondition ==
    probe.stage = "returned" =>
        LET root == probe.root
            own_parens(a) ==
                /\ NodeAt(root, Parent(a)).type = "parenthesized_expression"
                /\ Parent(a) # << 1 >>
        IN  /\ << 1, 1 >> \in PlainAssignments(root) =>
                  Cardinality({j \in DOMAIN probe.issues :
                                  probe.issues[j].node = << 1, 1 >>}) = 1
            /\ find_nodes_by_type(root, << >>, "assignment_expression") = << >> =>
                  probe.issues = << >>
            /\ (\A a \in PlainAssignments(root) : own_parens(a)) =>
                  probe.issues = << >>

-----------------------------------------------------------------------------
(* The fallthrough rule over switch statements: every case is a label and a
   few statements, laid out on one line or on several. *)

MaxCases == 2
MaxStatements == 2

StatementTypes ==
    {"expression_statement", "break_statement", "return_statement", "comment"}

\* A case as written: its statements, whether its label starts a new line,
\* and whether each of its statements starts a new line.
CasesAsWritten ==
    [items : UNION {[1..n -> StatementTypes] : n \in 0..MaxStatements},
     label_on_new_line : BOOLEAN, body_on_new_lines : BOOLEAN]

LabelRow(case, row) == IF case.label_on_new_line THEN row + 1 ELSE row
ItemRow(case, row, j) ==
    IF case.body_on_new_lines THEN LabelRow(case, row) + j ELSE LabelRow(case, row)
EndRow(case, row) == ItemRow(case, row, Len(case.items))

\* The row on which the text before case k ends; `switch (v) {` is row 0.
RECURSIVE RowBefore(_, _)
RowBefore(cases, k) ==
    IF k = 1 THEN 0 ELSE EndRow(cases[k - 1], RowBefore(cases, k - 1))

\* The tree tree-sitter builds: a comment of a /* FALLTHROUGH */ kind is a
\* comment node, the statements of a case are children of its case_statement.
SwitchTree(cases) ==
    NodeOn("switch_statement", << "switch" >>,
        << NodeOn("parenthesized_expression", << "(", "v", ")" >>, << >>, 0),
           NodeOn("compound_statement", << "{", "}" >>,
               [k \in DOMAIN cases |->
                   NodeOn("case_statement", << "case", ":" >>,
                       [j \in DOMAIN cases[k].items |->
                           NodeOn(cases[k].items[j], << >>, << >>,
                                  ItemRow(cases[k], RowBefore(cases, k), j))],
                       LabelRow(cases[k], RowBefore(cases, k)))],
               0) >>,
        0)

\* content.split('\n'): a line with a comment of a /* FALLTHROUGH */ kind
\* reads that comment, any other line reads no such words; the closing
\* brace ends the last line.
SwitchLines(cases) ==
    [i \in 1..(EndRow(cases[Len(cases)], RowBefore(cases, Len(cases))) + 1) |->
        IF \E k \in DOMAIN cases : \E j \in DOMAIN cases[k].items :
              /\ cases[k].items[j] = "comment"
              /\ ItemRow(cases[k], RowBefore(cases, k), j) = i - 1
        THEN << "/", "*", " ", "F", "A", "L", "L", "T", "H", "R", "O", "U", "G", "H",
                " ", "*", "/" >>
        ELSE << "x", ";" >>]

InitSwitch ==
    /\ ProbeIdle
    /\ \E n \in 1..MaxCases : \E cases \in [1..n -> CasesAsWritten] :
          probe = [stage |-> "called", cases |-> cases,
                   root |-> SwitchTree(cases), lines |-> SwitchLines(cases)]

CheckSwitchFallthrough ==
    /\ probe.stage = "called"
    /\ probe' = [stage |-> "returned", cases |-> probe.cases,
                 root |-> probe.root, lines |-> probe.lines,
                 issues |-> SwitchFallthroughRule_check(probe.root, probe.lines)]
    /\ ProbeFrame

NextSwitch == CheckSwitchFallthrough

SpecSwitch == InitSwitch /\ [][NextSwitch]_vars

\* C15: in a switch without comments, a case is flagged exactly when none
\* of its statements is a break or a return, whatever the layout.
C15_FallthroughFlagged ==
    (/\ probe.stage = "returned"
     /\ \A k \in DOMAIN probe.cases : \A j \in DOMAIN probe.cases[k].items :
           probe.cases[k].items[j] # "comment") =>
        \A k \in DOMAIN probe.cases :
            (\E n \in DOMAIN probe.issues : probe.issues[n].node = << 2, k >>)
                <=> \A j \in DOMAIN probe.cases[k].items :
                       probe.cases[k].items[j] \notin {"break_statement", "return_statement"}


-----------------------------------------------------------------------------
(* The array bounds rule over files of a few functions, each of which may
   declare `int a[size];` and may then assign to `a[index]`. *)

MaxFunctions == 2

\* Sizes as written: decimal, octal and hexadecimal literals, a macro name,
\* and "]" for `int a[]`, which has no size.
SizeTexts == {<< "2" >>, << "1", "0" >>, << "0", "1", "0" >>, << "0", "x", "2" >>,
              << "N" >>, << "]" >>}

\* Indexes as written: literals and a variable.
IndexTexts == {<< "0" >>, << "1" >>, << "2" >>, << "9" >>, << "1", "0" >>,
               << "-", "1" >>, << "0", "1", "0" >>, << "0", "x", "2" >>, << "i" >>}

Absent == << >>

FunctionsAsWritten ==
    [size : SizeTexts \cup {Absent}, index : IndexTexts \cup {Absent}]

IsLiteral(text) == text # Absent /\ Unsigned(text)[1] \in DecimalDigits

\* The value the C language gives a literal: hexadecimal after 0x, octal
\* after another leading 0, decimal otherwise.
ValueInC(text) ==
    LET digits == Unsigned(text)
        magnitude ==
            IF Len(digits) >= 2 /\ digits[1] = "0" /\ digits[2] = "x"
            THEN DigitsValue(SubSeq(digits, 3, Len(digits)), 16)
            ELSE IF Len(digits) >= 2 /\ digits[1] = "0"
            THEN DigitsValue(Tail(digits), 8)
            ELSE DigitsValue(digits, 10)
    IN  IF Head(text) = "-" THEN 0 - magnitude ELSE magnitude

Operand(text) ==
    IF IsLiteral(text) THEN Node("number_literal", text, << >>)
    ELSE Node("identifier", text, << >>)

ArrayDeclarator(size) ==
    Node("array_declarator",
         IF size = << "]" >> THEN << "a", "[", "]" >>
         ELSE << "a", "[" >> \o size \o << "]" >>,
         IF size = << "]" >> THEN << Identifier("a"), Token("["), Token("]") >>
         ELSE << Identifier("a"), Token("["), Operand(size), Token("]") >>)

SubscriptExpression(index) ==
    Node("subscript_expression", << "a", "[" >> \o index \o << "]" >>,
         << Identifier("a"), Token("["), Operand(index), Token("]") >>)

\* void f(void) { int a[size]; a[index] = 1; }
FunctionDefinition(f) ==
    Node("function_definition", << >>,
         << CompoundStatement(
               (IF f.size = Absent THEN << >>
                ELSE << Node("declaration", << >>, << ArrayDeclarator(f.size) >>) >>)
               \o (IF f.index = Absent THEN << >>
                   ELSE << Node("expression_statement", << >>,
                              << AssignmentExpression(SubscriptExpression(f.index),
                                                      "=", NumberLiteral("1")) >>) >>)) >>)

TranslationUnit(functions) ==
    Node("translation_unit", << >>,
         [k \in DOMAIN functions |-> FunctionDefinition(functions[k])])

\* The path of function k's subscript expression.
SubscriptOf(functions, k) ==
    << k, 1, IF functions[k].size = Absent THEN 1 ELSE 2, 1, 1 >>

InitArrayBounds ==
    /\ ProbeIdle
    /\ \E n \in 1..MaxFunctions : \E functions \in [1..n -> FunctionsAsWritten] :
          probe = [stage |-> "called", functions |-> functions,
                   root |-> TranslationUnit(functions)]

CheckArrayBounds ==
    /\ probe.stage = "called"
    /\ probe' = [stage |-> "returned", functions |-> probe.functions,
                 root |-> probe.root, issues |-> ArrayBoundsRule_check(probe.root)]
    /\ ProbeFrame

NextArrayBounds == CheckArrayBounds

SpecArrayBounds == InitArrayBounds /\ [][NextArrayBounds]_vars

IssuesAt(issues, node) == Cardinality({j \in DOMAIN issues : issues[j].node = node})

\* C16: an access a[i] with a literal index, in a function that declares a
\* with a literal size n, has exactly one issue when i >= n or i < 0 and
\* none when 0 <= i < n; an access whose index is not a literal has none; no
\* access has one when the tree has no declarator of a with a literal size.
C16_ArrayBounds ==
    probe.stage = "returned" =>
        LET fs == probe.functions
        IN  /\ \A k \in DOMAIN fs :
                  (IsLiteral(fs[k].index) /\ IsLiteral(fs[k].size)) =>
                     IssuesAt(probe.issues, SubscriptOf(fs, k)) =
                        IF \/ ValueInC(fs[k].index) >= ValueInC(fs[k].size)
                           \/ ValueInC(fs[k].index) < 0
                        THEN 1 ELSE 0
            /\ \A k \in DOMAIN fs :
                  (fs[k].index # Absent /\ ~IsLiteral(fs[k].index)) =>
                     IssuesAt(probe.issues, SubscriptOf(fs, k)) = 0
            /\ (\A k \in DOMAIN fs : ~IsLiteral(fs[k].size)) => probe.issues = << >>


-----------------------------------------------------------------------------
(* The division rule over a function of a few statements: `r = a op d;`
   and `if (cond) { }` with such a statement, or nothing, in its braces. *)

MaxStatementsInFunction == 2

Operators == {<< "/" >>, << "%" >>, << "+" >>}
Divisors == {<< "0" >>, << "0", ".", "0" >>, << "2" >>, << "b" >>}

\* b != 0, b > 0, 0 != b, c != 0
Conditions ==
    {[left |-> << "b" >>, op |-> << "!", "=" >>, right |-> << "0" >>],
     [left |-> << "b" >>, op |-> << ">" >>, right |-> << "0" >>],
     [left |-> << "0" >>, op |-> << "!", "=" >>, right |-> << "b" >>],
     [left |-> << "c" >>, op |-> << "!", "=" >>, right |-> << "0" >>]}

Arithmetic == [kind : {"arithmetic"}, op : Operators, divisor : Divisors]

Conditionals ==
    [kind : {"if"}, cond : Conditions,
     body : {<< >>} \cup {<< s >> : s \in Arithmetic}]

StatementsAsWritten == Arithmetic \cup Conditionals

BinaryOperation(left, op, right) ==
    Node("binary_expression", Spaced(<< left, op, right >>),
         << Operand(left), Node(join(op), op, << >>), Operand(right) >>)

\* r = a op d;
ArithmeticStatement(s) ==
    LET binary == BinaryOperation(<< "a" >>, s.op, s.divisor)
    IN  Node("expression_statement", Spaced(<< << "r" >>, << "=" >>, binary.text >>) \o << ";" >>,
             << Node("assignment_expression", Spaced(<< << "r" >>, << "=" >>, binary.text >>),
                     << Identifier("r"), Token("="), binary >>) >>)

Braces(statements) ==
    Node("compound_statement",
         Spaced(<< << "{" >> >> \o [j \in DOMAIN statements |-> statements[j].text]
                \o << << "}" >> >>),
         statements)

\* if (cond) { body }
IfStatement(s) ==
    LET cond == BinaryOperation(s.cond.left, s.cond.op, s.cond.right)
        body == Braces([j \in DOMAIN s.body |-> ArithmeticStatement(s.body[j])])
    IN  Node("if_statement",
             << "i", "f", " ", "(" >> \o cond.text \o << ")", " " >> \o body.text,
             << Node("parenthesized_expression", << "(" >> \o cond.text \o << ")" >>,
                     << cond >>),
                body >>)

StatementNode(s) ==
    IF s.kind = "if" THEN IfStatement(s) ELSE ArithmeticStatement(s)

\* void f(void) { statements }
FunctionOf(statements) ==
    LET body == Braces([k \in DOMAIN statements |-> StatementNode(statements[k])])
    IN  Node("translation_unit", body.text,
             << Node("function_definition", body.text, << body >>) >>)

\* The arithmetic of the function: the statement it is written in, the
\* path of its binary expression, and the if statement around it, if any.
ArithmeticOf(statements) ==
    {[k |-> k, s |-> statements[k], node |-> << 1, 1, k, 1, 3 >>, inside |-> << >>] :
        k \in {j \in DOMAIN statements : statements[j].kind = "arithmetic"}}
    \cup {[k |-> k, s |-> statements[k].body[1], node |-> << 1, 1, k, 2, 1, 1, 3 >>,
           inside |-> << statements[k].cond >>] :
        k \in {j \in DOMAIN statements :
                  statements[j].kind = "if" /\ statements[j].body # << >>}}

DivisionByZeroRuleObject ==
    objs[rules[CHOOSE k \in DOMAIN rules : objs[rules[k]].rule_id = "L005"]]

InitDivision ==
    /\ ProbeIdle
    /\ \E n \in 1..MaxStatementsInFunction :
          \E statements \in [1..n -> StatementsAsWritten] :
             probe = [stage |-> "called", statements |-> statements,
                      root |-> FunctionOf(statements)]

CheckDivisionByZero ==
    /\ probe.stage = "called"
    /\ probe' = [stage |-> "returned", statements |-> probe.statements,
                 root |-> probe.root,
                 issues |-> DivisionByZeroRule_check(DivisionByZeroRuleObject, probe.root)]
    /\ ProbeFrame

NextDivision == CheckDivisionByZero

SpecDivision == InitDivision /\ [][NextDivision]_vars

IsDivision(d) == d.s.op \in {<< "/" >>, << "%" >>}
ZeroLiteral(d) == d.s.divisor \in {<< "0" >>, << "0", ".", "0" >>}
IssuesOf(d) == {j \in DOMAIN probe.issues : probe.issues[j].node = d.node}

\* The function has an if statement that tests the divisor against zero.
HasGuardingIf(d) ==
    \E k \in DOMAIN probe.statements :
        /\ probe.statements[k].kind = "if"
        /\ d.s.divisor \in {probe.statements[k].cond.left, probe.statements[k].cond.right}

\* C17: a division or remainder by the literal 0 or 0.0 has exactly one
\* issue, which is critical; one by a variable in a function without an if
\* that guards the variable has exactly one issue, which is a warning; one
\* by b inside if (b != 0) { } has none.
C17_DivisionByZero ==
    probe.stage = "returned" =>
        \A d \in ArithmeticOf(probe.statements) :
            /\ (IsDivision(d) /\ ZeroLiteral(d)) =>
                  /\ Cardinality(IssuesOf(d)) = 1
                  /\ \A j \in IssuesOf(d) : probe.issues[j].severity = "CRITICAL"
            /\ (IsDivision(d) /\ d.s.divisor = << "b" >> /\ ~HasGuardingIf(d)) =>
                  /\ Cardinality(IssuesOf(d)) = 1
                  /\ \A j \in IssuesOf(d) : probe.issues[j].severity = "WARNING"
            /\ (/\ IsDivision(d) /\ d.s.divisor = << "b" >>
                /\ d.inside = << [left |-> << "b" >>, op |-> << "!", "=" >>,
                                  right |-> << "0" >>] >>) =>
                  IssuesOf(d) = {}

\* A function with a division by zero, then a remainder by b inside
\* if (b != 0) { }, was checked: one issue, critical, at the division by zero.
C17_Witness ==
    /\ probe.stage = "returned"
    /\ Len(probe.statements) = 2
    /\ probe.statements[1] = [kind |-> "arithmetic", op |-> << "/" >>,
                              divisor |-> << "0" >>]
    /\ probe.statements[2].kind = "if"
    /\ probe.statements[2].cond.left = << "b" >>
    /\ probe.statements[2].cond.op = << "!", "=" >>
    /\ probe.statements[2].body =
          << [kind |-> "arithmetic", op |-> << "%" >>, divisor |-> << "b" >>] >>
    /\ Len(probe.issues) = 1
    /\ probe.issues[1].severity = "CRITICAL"
    /\ probe.issues[1].node = << 1, 1, 1, 1, 3 >>

\* An if statement that tests the divisor against zero starts before the
\* division: an earlier statement, or the one the division is written in.
HasGuardingIfBefore(d) ==
    \E k \in 1..d.k :
        /\ probe.statements[k].kind = "if"
        /\ d.s.divisor \in {probe.statements[k].cond.left, probe.statements[k].cond.right}

\* C19: a division or remainder has an issue exactly when its divisor is the
\* literal 0 or 0.0, or is a variable that no if before the division guards
\* against zero; so none for a divisor that is another literal, and one
\* when the only guard comes after the division.
C19_IssueExactlyWhenUnguarded ==
    probe.stage = "returned" =>
        \A d \in ArithmeticOf(probe.statements) :
            IsDivision(d) =>
                (IssuesOf(d) # {}
                    <=> \/ ZeroLiteral(d)
                        \/ d.s.divisor = << "b" >> /\ ~HasGuardingIfBefore(d))


-----------------------------------------------------------------------------
(* The unused variable rule over a function of a few statements:
   `int v;`, `int v = 1;`, `int v = w;` and `printf("%d", v);`. *)

MaxLocalStatements == 4

LocalNames == {<< "x" >>, << "y" >>}

Declarations ==
    [kind : {"declaration"}, name : LocalNames,
     init : {Absent, << "1" >>} \cup LocalNames]

Usages == [kind : {"use"}, name : LocalNames]

\* Bodies that compile: a name is declared once at most, and is named in an
\* initializer or in a call only after its declaration.
DeclaredBefore(statements, k, name) ==
    \E j \in 1..(k - 1) :
        statements[j].kind = "declaration" /\ statements[j].name = name

Compiles(statements) ==
    \A k \in DOMAIN statements :
        IF statements[k].kind = "use"
        THEN DeclaredBefore(statements, k, statements[k].name)
        ELSE /\ ~DeclaredBefore(statements, k, statements[k].name)
             /\ statements[k].init \in LocalNames =>
                   DeclaredBefore(statements, k, statements[k].init)

DeclarationNode(s) ==
    Node("declaration", << >>,
         << Node("primitive_type", << "int" >>, << >>),
            IF s.init = Absent THEN Node("identifier", s.name, << >>)
            ELSE Node("init_declarator", << >>,
                      << Node("identifier", s.name, << >>), Token("="),
                         Operand(s.init) >>),
            Token(";") >>)

UsageNode(s) ==
    Node("expression_statement", << >>,
         << Node("call_expression", << >>,
                 << Identifier("printf"),
                    Node("argument_list", << >>,
                         << Token("("), Node("string_literal", << >>, << >>),
                            Token(","), Node("identifier", s.name, << >>),
                            Token(")") >>) >>),
            Token(";") >>)

\* void f(void) { statements }
FunctionWith(statements) ==
    Node("translation_unit", << >>,
         << Node("function_definition", << >>,
                 << Node("primitive_type", << "void" >>, << >>),
                    Node("function_declarator", << >>,
                         << Identifier("f"), Node("parameter_list", << >>, << >>) >>),
                    Node("compound_statement", << >>,
                         [k \in DOMAIN statements |->
                             IF statements[k].kind = "use"
                             THEN UsageNode(statements[k])
                             ELSE DeclarationNode(statements[k])]) >>) >>)

InitUnused ==
    /\ ProbeIdle
    /\ \E n \in 1..MaxLocalStatements :
          \E statements \in [1..n -> Declarations \cup Usages] :
             /\ Compiles(statements)
             /\ probe = [stage |-> "called", statements |-> statements,
                         root |-> FunctionWith(statements)]

CheckUnusedVariable ==
    /\ probe.stage = "called"
    /\ probe' = [stage |-> "returned", statements |-> probe.statements,
                 root |-> probe.root, issues |-> UnusedVariableRule_check(probe.root)]
    /\ ProbeFrame

NextUnused == CheckUnusedVariable

SpecUnused == InitUnused /\ [][NextUnused]_vars

\* C18: a declared local that no statement but declarations names has
\* exactly one issue naming it; a declared local that a call names has none.
C18_UnusedVariable ==
    probe.stage = "returned" =>
        \A k \in DOMAIN probe.statements :
            probe.statements[k].kind = "declaration" =>
                LET name == probe.statements[k].name
                    named == \E j \in DOMAIN probe.statements :
                                /\ probe.statements[j].kind = "use"
                                /\ probe.statements[j].name = name
                IN  Cardinality({i \in DOMAIN probe.issues : probe.issues[i].name = name})
                        = IF named THEN 0 ELSE 1


-----------------------------------------------------------------------------
(* The use-after-free rule over a function of a few statements on
   pointers: `free(v);`, `puts(v);`, `v = NULL;` and `*v = 0;`, each on a
   line of its own or on the line of the statement before it. *)

MaxPointerStatements == 3

PointerNames == {<< "p" >>, << "q" >>}

PointerStatements ==
    [kind : {"free", "puts", "null", "store"}, name : PointerNames,
     on_new_line : BOOLEAN]

\* The row of statement k; `void f(void) {` is row 0.
RECURSIVE StatementRow(_, _)
StatementRow(statements, k) ==
    IF k = 0 THEN 0
    ELSE StatementRow(statements, k - 1)
         + (IF statements[k].on_new_line THEN 1 ELSE 0)

NameOn(name, row) == NodeOn("identifier", name, << >>, row)
TokenOn(t, row) == NodeOn(t, << t >>, << >>, row)

\* callee(name)
CallOn(callee, name, row) ==
    NodeOn("call_expression", callee \o << "(" >> \o name \o << ")" >>,
        << NameOn(callee, row),
           NodeOn("argument_list", << "(" >> \o name \o << ")" >>,
               << TokenOn("(", row), NameOn(name, row), TokenOn(")", row) >>, row) >>,
        row)

PointerExpression(s, row) ==
    CASE s.kind = "free" -> CallOn(<< "f", "r", "e", "e" >>, s.name, row)
      [] s.kind = "puts" -> CallOn(<< "p", "u", "t", "s" >>, s.name, row)
      [] s.kind = "null" ->
            NodeOn("assignment_expression",
                Spaced(<< s.name, << "=" >>, << "N", "U", "L", "L" >> >>),
                << NameOn(s.name, row), TokenOn("=", row),
                   NodeOn("null", << "N", "U", "L", "L" >>, << >>, row) >>,
                row)
      [] s.kind = "store" ->
            NodeOn("assignment_expression",
                Spaced(<< << "*" >> \o s.name, << "=" >>, << "0" >> >>),
                << NodeOn("pointer_expression", << "*" >> \o s.name,
                       << TokenOn("*", row), NameOn(s.name, row) >>, row),
                   TokenOn("=", row),
                   NodeOn("number_literal", << "0" >>, << >>, row) >>,
                row)

\* void f(void) { statements }
FunctionOnPointers(statements) ==
    NodeOn("translation_unit", << >>,
        << NodeOn("function_definition", << >>,
               << NodeOn("primitive_type", << "v", "o", "i", "d" >>, << >>, 0),
                  NodeOn("function_declarator", << >>,
                      << NameOn(<< "f" >>, 0),
                         NodeOn("parameter_list", << >>, << >>, 0) >>, 0),
                  NodeOn("compound_statement", << >>,
                      [k \in DOMAIN statements |->
                          NodeOn("expression_statement", << >>,
                              << PointerExpression(statements[k],
                                                   StatementRow(statements, k)),
                                 TokenOn(";", StatementRow(statements, k)) >>,
                              StatementRow(statements, k))],
                      0) >>,
               0) >>,
        0)

InitUseAfterFree ==
    /\ ProbeIdle
    /\ \E n \in 1..MaxPointerStatements :
          \E statements \in [1..n -> PointerStatements] :
             probe = [stage |-> "called", statements |-> statements,
                      root |-> FunctionOnPointers(statements)]

CheckUseAfterFree ==
    /\ probe.stage = "called"
    /\ probe' = [stage |-> "returned", statements |-> probe.statements,
                 root |-> probe.root, issues |-> UseAfterFreeRule_check(probe.root)]
    /\ ProbeFrame

NextUseAfterFree == CheckUseAfterFree

SpecUseAfterFree == InitUseAfterFree /\ [][NextUseAfterFree]_vars

\* C20: a free(x) has an issue exactly when a later statement of the
\* function names x other than to assign NULL to it, on a later line or on
\* the same one.
C20_UseAfterFree ==
    probe.stage = "returned" =>
        \A k \in DOMAIN probe.statements :
            probe.statements[k].kind = "free" =>
                ((\E n \in DOMAIN probe.issues : probe.issues[n].node = << 1, 3, k, 1 >>)
                    <=> \E j \in (k + 1)..Len(probe.statements) :
                           /\ probe.statements[j].name = probe.statements[k].name
                           /\ probe.statements[j].kind # "null")


-----------------------------------------------------------------------------
(* create_issue's snippet for a node on any row of a file of a few lines *)

MaxLines == 6

LineTexts == {"x", ">>> "}

InitSnippet ==
    /\ ProbeIdle
    /\ \E n \in 1..MaxLines : \E lines \in [1..n -> LineTexts] :
          \E row \in 0..(n - 1) :
             probe = [stage |-> "called", lines |-> lines, row |-> row]

CreateIssue ==
    /\ probe.stage = "called"
    /\ probe' = [stage |-> "returned", lines |-> probe.lines, row |-> probe.row,
                 line_number |-> probe.row + 1,
                 code_snippet |-> code_snippet(probe.lines, probe.row + 1)]
    /\ ProbeFrame

NextSnippet == CreateIssue

SpecSnippet == InitSnippet /\ [][NextSnippet]_vars

\* C21: the snippet is the lines numbered from max(1, L - 2) to
\* min(lineCount, L + 2) in order, each with its own text: at most five
\* lines, all of them lines of the file, the reported line L among them
\* with up to two lines before and after it, and the marker on line L only.
C21_SnippetWindow ==
    probe.stage = "returned" =>
        LET snippet == probe.code_snippet
            L == probe.line_number
            first == Max(1, L - 2)
            final == Min(Len(probe.lines), L + 2)
        IN  /\ Len(snippet) <= 5
            /\ Len(snippet) = final - first + 1
            /\ \A j \in DOMAIN snippet :
                  /\ snippet[j].number = first + j - 1
                  /\ snippet[j].number \in DOMAIN probe.lines
                  /\ snippet[j].line = probe.lines[snippet[j].number]
                  /\ (snippet[j].prefix = ">>> ") <=> (snippet[j].number = L)
            /\ Cardinality({j \in DOMAIN snippet : snippet[j].prefix = ">>> "}) = 1

\* A node on line 5 of six lines: the snippet is lines 3 to 6, two before
\* the marked line and the one after it.
C21_Witness ==
    /\ probe.stage = "returned"
    /\ Len(probe.lines) = 6
    /\ probe.line_number = 5
    /\ Len(probe.code_snippet) = 4
    /\ probe.code_snippet[3].prefix = ">>> "
    /\ probe.code_snippet[3].line = ">>> "


-----------------------------------------------------------------------------
(* _format_reference over references with any of the fields empty *)

Books == {"", "C Traps and Pitfalls", "MISRA C", "Clean Code"}
Chapters == {"", "ch. 2", "ch. 6", "Rule 15.2"}
Pages == {"", "P23-P27", "P78-P82", "P45"}

RuleReferences == [book : Books, chapter : Chapters, page : Pages]

InitReference ==
    /\ ProbeIdle
    /\ \E reference \in RuleReferences :
          probe = [stage |-> "called", reference |-> reference]

FormatReference ==
    /\ probe.stage = "called"
    /\ probe' = [stage |-> "returned", reference |-> probe.reference,
                 text |-> _format_reference(probe.reference)]
    /\ ProbeFrame

NextReference == FormatReference

SpecReference == InitReference /\ [][NextReference]_vars

\* C22: the reference string is the non-empty fields among book, chapter
\* and page, in that order, joined with the separator, and is empty only
\* when all three fields are empty.
C22_ReferenceJoinsNonEmpty ==
    probe.stage = "returned" =>
        LET ref == probe.reference
            fields == SelectSeq(<< ref.book, ref.chapter, ref.page >>,
                                LAMBDA f : f # "")
        IN  /\ probe.text = str_join(" - ", fields)
            /\ probe.text = "" <=> fields = << >>


-----------------------------------------------------------------------------
(* The fallthrough comment of the switch rule: a switch whose rows are case
   labels and statements, none a break or a return, with one comment at the
   end of one of the rows. *)

MaxRows == 7

\* /* FALLTHROUGH */, // Falls through, /* fall through */, /* fall-through */
CommentSpellings ==
    {<< "/", "*", " ", "F", "A", "L", "L", "T", "H", "R", "O", "U", "G", "H", " ", "*", "/" >>,
     << "/", "/", " ", "F", "a", "l", "l", "s", " ", "t", "h", "r", "o", "u", "g", "h" >>,
     << "/", "*", " ", "f", "a", "l", "l", " ", "t", "h", "r", "o", "u", "g", "h", " ", "*", "/" >>,
     << "/", "*", " ", "f", "a", "l", "l", "-", "t", "h", "r", "o", "u", "g", "h", " ", "*", "/" >>}

IntentSpellings == CommentSpellings \ {<< "/", "*", " ", "f", "a", "l", "l", "-", "t", "h", "r", "o", "u", "g", "h", " ", "*", "/" >>}

\* The rows after `switch (v) {`: which of them are case labels (the first
\* is), and the row and the spelling of the comment, row 0 for none.
SwitchesWithComment ==
    UNION {[is_label : {f \in [1..n -> BOOLEAN] : f[1]},
            comment_row : 0..n, spelling : CommentSpellings] : n \in 1..MaxRows}

LabelRows(w) == {r \in DOMAIN w.is_label : w.is_label[r]}

\* The row of the k-th case label.
RowOfCase(w, k) ==
    CHOOSE r \in LabelRows(w) : Cardinality({q \in LabelRows(w) : q <= r}) = k

\* The statement rows of the k-th case.
RowsOfCase(w, k) ==
    {r \in DOMAIN w.is_label :
        /\ r > RowOfCase(w, k)
        /\ \A q \in LabelRows(w) : q > RowOfCase(w, k) => r < q}

RECURSIVE RowsInOrder(_)
RowsInOrder(rows) ==
    IF rows = {} THEN << >>
    ELSE LET r == CHOOSE x \in rows : \A y \in rows : x <= y
         IN  << r >> \o RowsInOrder(rows \ {r})

CommentedSwitchTree(w) ==
    NodeOn("switch_statement", << "switch" >>,
        << NodeOn("parenthesized_expression", << "(", "v", ")" >>, << >>, 0),
           NodeOn("compound_statement", << "{", "}" >>,
               [k \in 1..Cardinality(LabelRows(w)) |->
                   NodeOn("case_statement", << "case", ":" >>,
                       [j \in DOMAIN RowsInOrder(RowsOfCase(w, k)) |->
                           NodeOn("expression_statement", << >>, << >>,
                                  RowsInOrder(RowsOfCase(w, k))[j])],
                       RowOfCase(w, k))],
               0) >>,
        0)

\* content.split('\n'): `switch (v) {`, the rows, `}`.
CommentedSwitchLines(w) ==
    << << "s", "w", "i", "t", "c", "h", " ", "(", "v", ")", " ", "{" >> >>
    \o [r \in DOMAIN w.is_label |->
           (IF w.is_label[r] THEN << "c", "a", "s", "e", " ", "1", ":" >> ELSE << "f", "(", ")", ";" >>)
           \o (IF w.comment_row = r THEN << " " >> \o w.spelling ELSE << >>)]
    \o << << "}" >> >>

InitFallthrough ==
    /\ ProbeIdle
    /\ \E w \in SwitchesWithComment :
          /\ w.comment_row = 0 => w.spelling = << "/", "*", " ", "F", "A", "L", "L", "T", "H", "R", "O", "U", "G", "H", " ", "*", "/" >>
          /\ probe = [stage |-> "called", written |-> w,
                      root |-> CommentedSwitchTree(w),
                      lines |-> CommentedSwitchLines(w)]

CheckFallthroughComment ==
    /\ probe.stage = "called"
    /\ probe' = [stage |-> "returned", written |-> probe.written,
                 root |-> probe.root, lines |-> probe.lines,
                 issues |-> SwitchFallthroughRule_check(probe.root, probe.lines)]
    /\ ProbeFrame

NextFallthrough == CheckFallthroughComment

SpecFallthrough == InitFallthrough /\ [][NextFallthrough]_vars

\* The k-th case is reported.
CaseFlagged(k) == \E n \in DOMAIN probe.issues : probe.issues[n].node = << 2, k >>

\* The comment states the intent and stands from rows first to final after
\* the label's row.
IntentWithin(k, first, final) ==
    LET w == probe.written
    IN  /\ w.comment_row # 0
        /\ w.spelling \in IntentSpellings
        /\ w.comment_row - RowOfCase(w, k) \in first..final

\* C23 as stated: a case without break or return is not reported exactly
\* when a line with the words is one of the five lines after the label's.
C23_AsStated ==
    probe.stage = "returned" =>
        \A k \in 1..Cardinality(LabelRows(probe.written)) :
            ~CaseFlagged(k) <=> IntentWithin(k, 1, 5)

\* C23: a case without break or return is not reported exactly when a line
\* with "fallthrough", "fall through" or "falls through", in any case of
\* the letters, is the label's own line or one of the four lines after it,
\* whichever case the line belongs to; a line further away does not count.
C23_FallthroughCommentWindow ==
    probe.stage = "returned" =>
        \A k \in 1..Cardinality(LabelRows(probe.written)) :
            ~CaseFlagged(k) <=> IntentWithin(k, 0, 4)

\* Labels on rows 1 and 2 and /* FALLTHROUGH */ on row 6: the first case,
\* five lines above the comment, is reported, and the second is not.
C23_Witness ==
    /\ probe.stage = "returned"
    /\ LabelRows(probe.written) = {1, 2}
    /\ probe.written.comment_row = 6
    /\ probe.written.spelling = << "/", "*", " ", "F", "A", "L", "L", "T", "H", "R", "O", "U", "G", "H", " ", "*", "/" >>
    /\ Len(probe.issues) = 1
    /\ probe.issues[1].node = << 2, 1 >>


-----------------------------------------------------------------------------
(* A failed import *)

C24_Step ==
    (/\ calls' = calls + 1
     /\ last'.op = "import_config"
     /\ last'.error # NoError) => objs' = objs

\* C24: an import_config call that raises leaves every rule's enabled flag,
\* severity and config as they were before the call.
C24_FailedImportChangesNothing == [][C24_Step]_vars


-----------------------------------------------------------------------------
(* The enterprise template and rules added later *)

C25_Step ==
    (/\ calls' = calls + 1
     /\ last'.op = "apply_template"
     /\ last'.arg = "enterprise"
     /\ last'.error = NoError) =>
        \A k \in DOMAIN rules' : objs'[rules'[k]].enabled

\* C25: after apply_template('enterprise') every rule in the registry is
\* enabled, the rules that add_rule registered after construction included.
C25_EnterpriseEnablesAll == [][C25_Step]_vars


-----------------------------------------------------------------------------
(* A batch of check_files in its thread while the registry is changed from
   the main thread: the configuration window's checkbox, add_rule and
   remove_rule. *)

NextBatch ==
    \/ \E project_type \in ProjectTypes, parsed_files \in Projects :
          ScanProject(project_type, parsed_files)
    \/ OnScanComplete
    \/ StartCheck
    \/ \E t \in DOMAIN gui.threads : ThreadEnter(t)
    \/ \E t \in DOMAIN gui.threads : ThreadCheck(t)
    \/ OnCheckComplete
    \/ \E i \in Registered \cap SelectedRules, value \in BOOLEAN :
          gui.threads # << >> /\ OnRuleEnabledChange(i, value)
    \/ gui.threads # << >> /\ AddRule(FunctionLengthInst)
    \/ \E rule_id \in {"C001", "L005"} : gui.threads # << >> /\ RemoveRule(rule_id)

SpecBatch == InitBuiltin /\ [][NextBatch]_vars

\* C26: the passes a batch has made are, file by file and in order, over
\* the rules that were registered and enabled when check_files was entered,
\* whatever has been enabled, disabled, added or removed since.
C26_RulesFixedAtStart ==
    \A t \in DOMAIN gui.threads :
        LET th == gui.threads[t]
            at_start == SelectSeq(th.enter_rules, LAMBDA i : th.enter_objs[i].enabled)
        IN  th.pc = "loop" =>
               \A n \in DOMAIN th.ran :
                  /\ th.ran[n].f = ((n - 1) \div Len(at_start)) + 1
                  /\ th.ran[n].rule = at_start[((n - 1) % Len(at_start)) + 1]

\* A batch is on its second file and has run there a rule that had been
\* disabled or removed by then, and has not run a rule that was added.
C26_Witness ==
    \E t \in DOMAIN gui.threads :
        /\ gui.threads[t].pc = "loop"
        /\ \E n \in DOMAIN gui.threads[t].ran :
              /\ gui.threads[t].ran[n].f = 2
              /\ \/ ~gui.threads[t].ran[n].enabled
                 \/ ~gui.threads[t].ran[n].registered


\* C27: while a check thread is in flight, start_check cannot launch
\* another one: the check button is disabled, or start_check would return
\* early for want of parsed files or enabled rules.
C27_OneBatchInFlight ==
    gui.threads # << >> =>
        ~(/\ gui.check_button = "normal"
          /\ gui.parsed_files # << >>
          /\ get_enabled_rules(objs, rules) # << >>)


-----------------------------------------------------------------------------
(* Command-line mode: run_cli_mode configures the engine it has constructed
   from --config and --template, then checks the files. *)

\* --template is one of the parser's choices.
TemplateChoices == {"beginner", "c_traps", "embedded", "misra_c", "enterprise"}

\* --config: absent, naming no file, or naming one of the files.
NoConfigFile == [parses |-> FALSE, enabled_rules |-> <<>>, rule_settings |-> NoSettings]
ConfigArgs ==
    {[given |-> FALSE, exists |-> FALSE, file |-> NoConfigFile],
     [given |-> TRUE, exists |-> FALSE, file |-> NoConfigFile]}
        \cup {[given |-> TRUE, exists |-> TRUE, file |-> c] : c \in ConfigFiles}

\* The templates directory: absent or empty, or holding a beginner.json that
\* replaces the built-in template of that name, with or without a severity.
CliTemplatesDirs ==
    {[n \in {} |-> 0]}
        \cup {[n \in {"beginner"} |-> t] :
                 t \in { Template(TRUE, <<"C001", "L001", "L005">>,
                                  [id \in {"C001"} |-> Settings(TRUE, "yanzhong", FALSE, <<>>)]),
                         Template(TRUE, <<"C001", "C002">>, NoSettings) }}

InitCli ==
    /\ objs = InitialObjs
    /\ rules = _load_all_rules
    /\ \E files \in CliTemplatesDirs :
          rule_templates = _load_templates(InitialObjs, _load_all_rules, files)
    /\ last = [op |-> "init", arg |-> "", error |-> NoError]
    /\ calls = 0
    /\ exported = NoFile
    /\ fresh = NoEngine
    /\ result = NoResult
    /\ gui = MainWindow
    /\ source_file = NoFileInfo
    /\ \E config \in ConfigArgs, template \in TemplateChoices :
          probe = [stage |-> "cli", args |-> [config |-> config, template |-> template]]

\* Lines 243-254 of run_cli_mode.
CliConfigure ==
    /\ probe.stage = "cli"
    /\ LET r == run_cli_mode_configure(objs, rules, rule_templates, probe.args)
       IN  /\ objs' = r.objs
           /\ probe' = [stage |-> IF r.error = NoError THEN "configured" ELSE "exit",
                        args |-> probe.args, imported |-> r.imported, error |-> r.error]
    /\ UNCHANGED <<rules, rule_templates, last, calls, export_vars, result, gui, source_file>>

\* rule_engine.check_files: the rules of the run are the enabled ones.
CliCheckFiles ==
    /\ probe.stage = "configured"
    /\ probe' = [stage |-> "checked", args |-> probe.args, imported |-> probe.imported,
                 error |-> probe.error, enabled_rules |-> get_enabled_rules(objs, rules)]
    /\ ProbeFrame

NextCli == CliConfigure \/ CliCheckFiles

SpecCli == InitCli /\ [][NextCli]_vars

\* A run with --config naming an existing file has got past the template.
CliConfigured ==
    /\ probe.stage \in {"configured", "checked"}
    /\ probe.args.config.given
    /\ probe.args.config.exists

\* The rules enabled are those the selected template lists.
CliEnabledFromTemplate ==
    \A k \in DOMAIN rules :
        objs[rules[k]].enabled
            <=> InSeq(objs[rules[k]].rule_id,
                      rule_templates[probe.args.template].enabled_rules)

\* The selected template sets this rule's severity.
TemplateSetsSeverity(rule_id) ==
    LET rule_settings == rule_templates[probe.args.template].rule_settings
    IN  /\ rule_id \in DOMAIN rule_settings
        /\ rule_settings[rule_id].has_severity

\* C28 as stated: with --config, the rules enabled are those of the selected
\* template, and every rule has the severity and the config the import
\* left it with.
C28_AsStated ==
    CliConfigured =>
        /\ CliEnabledFromTemplate
        /\ \A k \in DOMAIN rules :
              /\ objs[rules[k]].severity = probe.imported[rules[k]].severity
              /\ objs[rules[k]].config = probe.imported[rules[k]].config

\* C28: with --config, the rules enabled are those of the selected template;
\* every rule has the config the import left it with, and the severity the
\* import left it with unless the selected template sets that rule's severity.
C28_TemplateAfterConfig ==
    CliConfigured =>
        /\ CliEnabledFromTemplate
        /\ \A k \in DOMAIN rules :
              /\ objs[rules[k]].config = probe.imported[rules[k]].config
              /\ ~TemplateSetsSeverity(objs[rules[k]].rule_id)
                    => objs[rules[k]].severity = probe.imported[rules[k]].severity

\* A run whose configuration file enabled a rule the template does not list
\* and changed a severity and a config, checked with the template's rules.
C28_Witness ==
    /\ probe.stage = "checked"
    /\ probe.args.config.given
    /\ probe.args.config.exists
    /\ \E k \in DOMAIN rules :
          /\ probe.imported[rules[k]].enabled
          /\ ~objs[rules[k]].enabled
    /\ \E k \in DOMAIN rules :
          /\ probe.imported[rules[k]].severity # InitialObjs[rules[k]].severity
          /\ objs[rules[k]].severity = probe.imported[rules[k]].severity
    /\ \E k \in DOMAIN rules :
          /\ probe.imported[rules[k]].config # InitialObjs[rules[k]].config
          /\ objs[rules[k]].config = probe.imported[rules[k]].config


-----------------------------------------------------------------------------
(* DivisionByZeroRule checks a function after the rule's severity has been
   set by a template, a configuration file or the configuration window. *)

DivisionByZeroInsts == {i \in Registered : objs[i].rule_id = "L005"}

InitSeverity ==
    /\ EngineInit
    /\ last = [op |-> "init", arg |-> "", error |-> NoError]
    /\ calls = 0
    /\ exported = NoFile
    /\ fresh = NoEngine
    /\ result = NoResult
    /\ gui = MainWindow
    /\ source_file = NoFileInfo
    /\ \E statement \in Arithmetic :
          probe = [stage |-> "called", statements |-> << statement >>,
                   root |-> FunctionOf(<< statement >>)]

NextSeverity ==
    \/ \E name \in TemplateArgs : probe.stage = "called" /\ ApplyTemplate(name)
    \/ \E config \in ConfigFiles : probe.stage = "called" /\ ImportConfig(config)
    \/ \E i \in DivisionByZeroInsts, m \in SeverityMembers :
          probe.stage = "called" /\ OnSeverityChange(i, SeverityValue(m))
    \/ CheckDivisionByZero

SpecSeverity == InitSeverity /\ [][NextSeverity]_vars

\* C29: every issue of a check carries the severity the rule has in the
\* registry when it is checked.
C29_IssueSeverityFromRegistry ==
    probe.stage = "returned" =>
        \A j \in DOMAIN probe.issues :
            probe.issues[j].severity = DivisionByZeroRuleObject.severity


-----------------------------------------------------------------------------
(* The fallthrough rule over a switch statement whose cases may hold a
   switch statement of their own.  Every label and every statement is on a
   line of its own:
       switch (v) {
       case 1:
           switch (w) {
           case 1:
               x;
               break;
           }
           x;
           break;
       } *)

MaxNestedCases == 2

\* A case of the inner switch: x; and perhaps break;
InnerCases == [has_break : BOOLEAN]

\* A case of the outer switch: perhaps a switch statement (nested is the
\* sequence of its cases, empty for none), then x; and perhaps break;
OuterCases ==
    [nested : UNION {[1..n -> InnerCases] : n \in 0..MaxNestedCases},
     has_break : BOOLEAN]

InnerCaseRows(c) == IF c.has_break THEN 3 ELSE 2

RECURSIVE InnerRowsBefore(_, _)
InnerRowsBefore(nested, j) ==
    IF j = 1 THEN 0
    ELSE InnerRowsBefore(nested, j - 1) + InnerCaseRows(nested[j - 1])

\* The lines of the nested switch statement with its braces.
NestedRows(nested) ==
    IF nested = << >> THEN 0
    ELSE 2 + InnerRowsBefore(nested, Len(nested) + 1)

OuterCaseRows(c) == 1 + NestedRows(c.nested) + (IF c.has_break THEN 2 ELSE 1)

RECURSIVE OuterRowsBefore(_, _)
OuterRowsBefore(outer, k) ==
    IF k = 1 THEN 0
    ELSE OuterRowsBefore(outer, k - 1) + OuterCaseRows(outer[k - 1])

StatementsOn(has_break, row) ==
    << NodeOn("expression_statement", << "x", ";" >>, << >>, row) >>
        \o (IF has_break
            THEN << NodeOn("break_statement", << "break", ";" >>, << >>, row + 1) >>
            ELSE << >>)

SwitchOn(cases, row) ==
    NodeOn("switch_statement", << "switch" >>,
        << NodeOn("parenthesized_expression", << "(", "v", ")" >>, << >>, row),
           NodeOn("compound_statement", << "{", "}" >>, cases, row) >>,
        row)

InnerCase(c, row) ==
    NodeOn("case_statement", << "case", ":" >>, StatementsOn(c.has_break, row + 1), row)

NestedSwitch(nested, row) ==
    SwitchOn([j \in DOMAIN nested |->
                 InnerCase(nested[j], row + 1 + InnerRowsBefore(nested, j))], row)

OuterCase(c, row) ==
    NodeOn("case_statement", << "case", ":" >>,
        (IF c.nested = << >> THEN << >> ELSE << NestedSwitch(c.nested, row + 1) >>)
            \o StatementsOn(c.has_break, row + 1 + NestedRows(c.nested)),
        row)

NestedSwitchTree(outer) ==
    SwitchOn([k \in DOMAIN outer |->
                 OuterCase(outer[k], 1 + OuterRowsBefore(outer, k))], 0)

\* content.split('\n'): no line holds a comment.
NestedSwitchLines(outer) ==
    [i \in 1..(2 + OuterRowsBefore(outer, Len(outer) + 1)) |-> << "x", ";" >>]

InitNested ==
    /\ ProbeIdle
    /\ \E n \in 1..MaxCases : \E outer \in [1..n -> OuterCases] :
          probe = [stage |-> "called", outer |-> outer,
                   root |-> NestedSwitchTree(outer), lines |-> NestedSwitchLines(outer)]

CheckNestedSwitch ==
    /\ probe.stage = "called"
    /\ probe' = [stage |-> "returned", outer |-> probe.outer,
                 root |-> probe.root, lines |-> probe.lines,
                 issues |-> SwitchFallthroughRule_check(probe.root, probe.lines)]
    /\ ProbeFrame

NextNested == CheckNestedSwitch

SpecNested == InitNested /\ [][NextNested]_vars

\* C30: a check creates at most one issue at any case label, those of a
\* switch statement inside another switch statement's case included.
C30_OneIssuePerCase ==
    probe.stage = "returned" =>
        \A n, m \in DOMAIN probe.issues :
            probe.issues[n].node = probe.issues[m].node => n = m

====
